---- MODULE Spec2Model ----
(***************************************************************************)
(* PhaseState: the Machine class of src/phasestate.ts as a state machine.  *)
(*                                                                         *)
(* An async method (`to`, `back`, `run`) runs synchronously up to its      *)
(* first `await` and is resumed later; every stretch between two awaits is *)
(* one atomic action here.  The stretches are written as operators on a    *)
(* record `m` of the mutable fields, so that `run`, which starts several   *)
(* `to` calls in one synchronous stretch, is one action as well.           *)
(***************************************************************************)
EXTENDS Integers, Sequences, FiniteSets, TLC

VARIABLES
    current,       \* Machine.current: [value, context]
    stateHistory,  \* Machine.stateHistory
    handlers,      \* Machine.handlers: state name -> descriptor
    handlerOrder,  \* insertion order of the keys of Machine.handlers
    guards,        \* Machine.guards: state name -> guard
    listeners,     \* Machine.listeners, in insertion order
    calls,         \* `to`/`back` invocations suspended at an await
    runSeq,        \* the steps a suspended `run` still has to take
    gen,           \* position of the generator returned by steps()
    snap,          \* the snapshot the caller holds
    plan,          \* the registrations the caller still has to make
    ops,           \* number of operations issued so far
    fx,            \* enter/exit effects invoked by the last action
    log,           \* listener invocations made by the last action
    done           \* invocations that returned during the last action

vars == <<current, stateHistory, handlers, handlerOrder, guards, listeners,
          calls, runSeq, gen, snap, plan, ops, fx, log, done>>

----------------------------------------------------------------------------
(* Bounds of the model. *)

MaxOps == 3
MaxRun == 2
MaxDeep == 15

(* Program constant. *)
maxHistory == 10

Names == {"A", "B", "C"}
ListenerIds == {1, 2}
(* A listener that calls its own unsubscribe function in its callback:     *)
(* const off = m.on(event => { off(); })                                   *)
OnceIds == {3}
(* A listener that subscribes another one in its callback:                 *)
(* m.on(event => { m.on(late); })                                          *)
AdderIds == {4}
LateId == 5
Keys == {"count", "ready"}
(* The numbers a context can hold: every operation adds at most one. *)
MaxCount == MaxDeep + MaxOps

----------------------------------------------------------------------------
(* Contexts: objects with some of the keys `count` (a number) and `ready`  *)
(* (a boolean).  A key outside `keys` is undefined; its field is then kept *)
(* at a fixed default so that equal objects are equal records.  `obj` is   *)
(* the identity of the object: two references are the same object exactly  *)
(* when their `obj` is equal.  An object literal of the caller has obj 0.  *)
(* `count` may also hold NaN (undefined + 1) and null (what JSON makes of   *)
(* NaN), written as two values below the numbers.                          *)

NaN == -1
Null == -2

Ctx(ks, c, r) ==
    [keys |-> ks,
     count |-> IF "count" \in ks THEN c ELSE 0,
     ready |-> IF "ready" \in ks THEN r ELSE FALSE,
     obj |-> 0]

(* The object an expression creates while invocation id runs. *)
Alloc(ctx, id) == [ctx EXCEPT !.obj = id]

State(v, c) == [value |-> v, context |-> c]

(* { ...ctx, ...p }: the keys of p override, every other key is kept. *)
Merge(ctx, p) ==
    Ctx(ctx.keys \cup p.keys,
        IF "count" \in p.keys THEN p.count ELSE ctx.count,
        IF "ready" \in p.keys THEN p.ready ELSE ctx.ready)

(* ctx.count + 1: undefined + 1 and NaN + 1 are NaN, null + 1 is 1. *)
PlusOne(ctx) ==
    IF "count" \notin ctx.keys \/ ctx.count = NaN THEN NaN
    ELSE IF ctx.count = Null THEN 1
    ELSE ctx.count + 1

(* The update functions the callers pass:                                  *)
(* ctx => ({ count: ctx.count + 1 }) and ctx => ({ count: 0 })             *)
CallFn(f, ctx) ==
    CASE f = "inc"   -> Ctx({"count"}, PlusOne(ctx), FALSE)
      [] f = "reset" -> Ctx({"count"}, 0, FALSE)

NoUpdate == [kind |-> "none", obj |-> Ctx({}, 0, FALSE), fn |-> ""]
Partial(p) == [kind |-> "partial", obj |-> p, fn |-> ""]
Fn(f) == [kind |-> "fn", obj |-> Ctx({}, 0, FALSE), fn |-> f]

(* Variant: a partial update replaces the context instead of merging. *)
ApplyUpdateNoMerge(ctx, u, id) ==
    CASE u.kind = "none"    -> ctx
      [] u.kind = "partial" -> Alloc(u.obj, id)
      [] u.kind = "fn"      -> Alloc(CallFn(u.fn, ctx), id)

(* update ? (typeof update === 'function' ? update(ctx)                    *)
(*                                        : { ...ctx, ...update }) : ctx   *)
(* No update keeps the reference; the other two make a new object.         *)
ApplyUpdate(ctx, u, id) ==
    CASE u.kind = "none"    -> ctx
      [] u.kind = "partial" -> Alloc(Merge(ctx, u.obj), id)
      [] u.kind = "fn"      -> Alloc(CallFn(u.fn, ctx), id)

(* JSON.stringify of a context: the text of each key it has. *)
Stringify(ctx) ==
    [k \in ctx.keys |->
        IF k = "count"
        THEN (IF ctx.count \in {NaN, Null} THEN "null"
              ELSE ToString(ctx.count))
        ELSE IF ctx.ready THEN "true" ELSE "false"]

(* JSON.parse of such a text: a new object. *)
Parse(txt) ==
    Ctx(DOMAIN txt,
        IF "count" \notin DOMAIN txt THEN 0
        ELSE IF txt["count"] = "null" THEN Null
        ELSE CHOOSE n \in 0..MaxCount : ToString(n) = txt["count"],
        IF "ready" \in DOMAIN txt THEN txt["ready"] = "true" ELSE FALSE)

(* Variant: the snapshot keeps the reference. *)
JsonAlias(ctx, id) == ctx

(* JSON.parse(JSON.stringify(ctx)) *)
JsonCopy(ctx, id) == Alloc(Parse(Stringify(ctx)), id)

----------------------------------------------------------------------------
(* Descriptors and guards. *)

NoFrom == [kind |-> "absent", names |-> {}]
AnyFrom == [kind |-> "any", names |-> {}]
FromList(S) == [kind |-> "list", names |-> S]

(* handlers.get(n) of an unregistered n is undefined: has = FALSE. *)
NoDesc ==
    [has |-> FALSE, enter |-> FALSE, exit |-> FALSE,
     hasTo |-> FALSE, to |-> <<>>, from |-> NoFrom]

Desc(en, ex, hasTo, to, from) ==
    [has |-> TRUE, enter |-> en, exit |-> ex,
     hasTo |-> hasTo, to |-> to, from |-> from]

InSeq(x, s) == \E i \in 1..Len(s) : s[i] = x

(* A descriptor with a `meta` field. *)
DescMeta(en, ex, hasTo, to, from, meta) ==
    [has |-> TRUE, enter |-> en, exit |-> ex,
     hasTo |-> hasTo, to |-> to, from |-> from, meta |-> meta]

(* The guards the callers register: predicates of the current state. *)
GuardHolds(g, st) ==
    CASE g = "ready"    -> "ready" \in st.context.keys /\ st.context.ready
      [] g = "positive" -> "count" \in st.context.keys /\ st.context.count > 0
                           /\ st.context.count \notin {NaN, Null}
      [] g = "notC"     -> st.value # "C"

----------------------------------------------------------------------------
(* The mutable fields an invocation works on, as one record.  fx, log and  *)
(* done start empty in every action: they hold what that action did.       *)

M ==
    [current |-> current, stateHistory |-> stateHistory, calls |-> calls,
     listeners |-> listeners, ops |-> ops, fx |-> <<>>, log |-> <<>>,
     done |-> <<>>]

NoState == State("", Ctx({}, 0, FALSE))

(* Events as the listeners receive them.  A plain state-change event is    *)
(* the current state itself; a transition event carries from, to, state    *)
(* and, when blocked, the reason (blocked = "none": no `blocked` field).   *)
StateEvent(st) ==
    [type |-> "state", from |-> "", to |-> "", blocked |-> "none", state |-> st]

TransitionEvent(from, to, blocked, st) ==
    [type |-> "transition", from |-> from, to |-> to, blocked |-> blocked,
     state |-> st]

(* Variant: the unsubscribe function subscribes the listener again when it *)
(* is called a second time.                                                *)
UnsubscribeToggles(m, l) ==
    [m EXCEPT !.listeners = IF InSeq(l, @) THEN SelectSeq(@, LAMBDA x : x # l)
                            ELSE Append(@, l)]

(* The function `on` returned, called: this.listeners.delete(listener) *)
Unsubscribe(m, l) ==
    [m EXCEPT !.listeners = SelectSeq(@, LAMBDA x : x # l)]

(* on(listener): this.listeners.add(listener) *)
Subscribe(m, l) ==
    [m EXCEPT !.listeners = IF InSeq(l, @) THEN @ ELSE Append(@, l)]

(* listener(event): the callback is invoked and, if it is one that         *)
(* unsubscribes itself, deletes itself from the set; if it is one that     *)
(* subscribes the listener LateId, adds that one to the set.               *)
Invoke(m, l, ev, id) ==
    LET m1 == [m EXCEPT !.log = Append(@, [l |-> l, ev |-> ev, call |-> id])]
    IN  IF l \in OnceIds THEN Unsubscribe(m1, l)
        ELSE IF l \in AdderIds THEN Subscribe(m1, LateId)
        ELSE m1

(* Variant: the listeners are visited by position in a list from which the *)
(* deleted ones are spliced out, so that a deletion shifts the next one    *)
(* into the position just visited.                                         *)
RECURSIVE VisitByIndex(_, _, _, _)
VisitByIndex(m, i, ev, id) ==
    IF i > Len(m.listeners) THEN m
    ELSE VisitByIndex(Invoke(m, m.listeners[i], ev, id), i + 1, ev, id)

DeliverByIndex(m, ev, id) == VisitByIndex(m, 1, ev, id)

(* The iteration of a Set: the entries are visited in insertion order, an  *)
(* entry deleted before it is visited is not visited, and an entry added   *)
(* while the iteration runs is visited after those that were there.        *)
RECURSIVE Visit(_, _, _, _)
Visit(m, pending, ev, id) ==
    IF pending = <<>> THEN m
    ELSE LET m1 == Invoke(m, Head(pending), ev, id)
             kept == SelectSeq(Tail(pending),
                               LAMBDA x : InSeq(x, m1.listeners))
             added == SelectSeq(m1.listeners,
                                LAMBDA x : ~InSeq(x, m.listeners))
         IN  Visit(m1, kept \o added, ev, id)

(* for (const listener of this.listeners) listener(event) *)
Deliver(m, ev, id) == Visit(m, m.listeners, ev, id)

(* One step of an invocation, as its caller could observe it. *)
Step(k, from, st) == [k |-> k, from |-> from, st |-> st]

NewCall(m, op, origin, target, update) ==
    [id |-> m.ops + 1, op |-> op, origin |-> origin, target |-> target,
     update |-> update, pc |-> "start", pre |-> m.current, from |-> "",
     prev |-> NoState, blocked |-> "none", steps |-> <<>>]

Effect(m, kind, name, ctx, id) ==
    [m EXCEPT !.fx = Append(@, [kind |-> kind, state |-> name, ctx |-> ctx,
                                call |-> id])]

Suspend(m, c, pc) == [m EXCEPT !.calls = Append(@, [c EXCEPT !.pc = pc])]

Return(m, c) == [m EXCEPT !.done = Append(@, [c EXCEPT !.pc = "done"])]

(* The effect the invocation awaited raised: the rest of the method is not *)
(* run and the promise it returned is rejected.                            *)
Abandon(m, c) == [m EXCEPT !.done = Append(@, [c EXCEPT !.pc = "raised"])]

----------------------------------------------------------------------------
(* Machine.to *)

(* Variant: the `from` check made before the `to` check. *)
BlockedByFromFirst(cur, target) ==
    LET ch == handlers[cur.value]
        nh == handlers[target]
        g == guards[target]
    IN  IF nh.from.kind = "list" /\ cur.value \notin nh.from.names
        THEN "from"
        ELSE IF ch.hasTo /\ ~InSeq(target, ch.to) THEN "to"
        ELSE IF g # "none" /\ ~GuardHolds(g, cur) THEN "guard"
        ELSE "none"

(* Variant: the guard is not consulted. *)
BlockedByNoGuard(cur, target) ==
    LET ch == handlers[cur.value]
        nh == handlers[target]
    IN  IF ch.hasTo /\ ~InSeq(target, ch.to) THEN "to"
        ELSE IF nh.from.kind = "list" /\ cur.value \notin nh.from.names
        THEN "from"
        ELSE "none"

(* Variant: the guard consulted before the two constraint checks. *)
BlockedByGuardFirst(cur, target) ==
    LET ch == handlers[cur.value]
        nh == handlers[target]
        g == guards[target]
    IN  IF g # "none" /\ ~GuardHolds(g, cur) THEN "guard"
        ELSE IF ch.hasTo /\ ~InSeq(target, ch.to) THEN "to"
        ELSE IF nh.from.kind = "list" /\ cur.value \notin nh.from.names
        THEN "from"
        ELSE "none"

(* Variant: a target no descriptor is registered for is rejected. *)
BlockedByUnregistered(cur, target) ==
    LET ch == handlers[cur.value]
        nh == handlers[target]
        g == guards[target]
    IN  IF ch.hasTo /\ ~InSeq(target, ch.to) THEN "to"
        ELSE IF ~nh.has \/ (nh.from.kind = "list"
                            /\ cur.value \notin nh.from.names)
        THEN "from"
        ELSE IF g # "none" /\ ~GuardHolds(g, cur) THEN "guard"
        ELSE "none"

(* The three checks of `to`, in the code's order: the reason the call is   *)
(* rejected for, or "none".                                                *)
BlockedBy(cur, target) ==
    LET ch == handlers[cur.value]
        nh == handlers[target]
        g == guards[target]
    IN  IF ch.hasTo /\ ~InSeq(target, ch.to) THEN "to"
        ELSE IF nh.from.kind = "list" /\ cur.value \notin nh.from.names
        THEN "from"
        ELSE IF g # "none" /\ ~GuardHolds(g, cur) THEN "guard"
        ELSE "none"

(* Variant: a rejected call still records the state in the history. *)
NotifyBlockedPushes(m, c, reason) ==
    LET ev == TransitionEvent(m.current.value, c.target, reason, m.current)
        c1 == [c EXCEPT !.blocked = reason,
                        !.steps = Append(@, Step("blocked", m.current.value,
                                                 m.current))]
        m1 == [m EXCEPT !.stateHistory = Append(@, m.current)]
    IN  Return(Deliver(m1, ev, c.id), c1)

(* notifyBlocked(reason, to); return this *)
NotifyBlocked(m, c, reason) ==
    LET ev == TransitionEvent(m.current.value, c.target, reason, m.current)
        c1 == [c EXCEPT !.blocked = reason,
                        !.steps = Append(@, Step("blocked", m.current.value,
                                                 m.current))]
    IN  Return(Deliver(m, ev, c.id), c1)

(* Variant: the entry is put in front of the older ones. *)
PushInFront(m) ==
    LET h == <<m.current>> \o m.stateHistory
    IN  [m EXCEPT !.stateHistory =
            IF Len(h) > maxHistory THEN SubSeq(h, 1, maxHistory) ELSE h]

(* Variant: a full history drops the entry just pushed. *)
PushEvictNewest(m) ==
    LET h == Append(m.stateHistory, m.current)
    IN  [m EXCEPT !.stateHistory =
            IF Len(h) > maxHistory THEN SubSeq(h, 1, maxHistory) ELSE h]

(* Variant: the history is never trimmed. *)
PushUnbounded(m) ==
    [m EXCEPT !.stateHistory = Append(@, m.current)]

(* stateHistory.push({ ...current }); if (length > maxHistory) shift() *)
Push(m) ==
    LET h == Append(m.stateHistory, m.current)
    IN  [m EXCEPT !.stateHistory = IF Len(h) > maxHistory THEN Tail(h) ELSE h]

(* notifyTransition(fromState, state); return this *)
ToFinish(m, c) ==
    LET ev == TransitionEvent(c.from, c.target, "none", m.current)
        c1 == [c EXCEPT !.steps = Append(@, Step("notify", c.from, m.current))]
    IN  Return(Deliver(m, ev, c.id), c1)

(* Variant: the enter effect is called but not awaited. *)
ToCommitNoAwait(m, c) ==
    LET newContext == ApplyUpdate(m.current.context, c.update, c.id)
        fromState == m.current.value
        m1 == [m EXCEPT !.current = State(c.target, newContext)]
        c1 == [c EXCEPT !.from = fromState,
                        !.steps = Append(@, Step("commit", fromState,
                                                 m1.current))]
    IN  IF handlers[c.target].enter
        THEN ToFinish(Effect(m1, "enter", c.target, m1.current.context, c.id),
                      [c1 EXCEPT !.steps = Append(@, Step("enter", fromState,
                                                          m1.current))])
        ELSE ToFinish(m1, c1)

(* From the computation of newContext to the call of the enter effect. *)
ToCommit(m, c) ==
    LET newContext == ApplyUpdate(m.current.context, c.update, c.id)
        fromState == m.current.value
        m1 == [m EXCEPT !.current = State(c.target, newContext)]
        c1 == [c EXCEPT !.from = fromState,
                        !.steps = Append(@, Step("commit", fromState,
                                                 m1.current))]
    IN  IF handlers[c.target].enter
        THEN Suspend(Effect(m1, "enter", c.target, m1.current.context, c.id),
                     [c1 EXCEPT !.steps = Append(@, Step("enter", fromState,
                                                         m1.current))],
                     "enter")
        ELSE ToFinish(m1, c1)

(* `to` from its call to its first await, or to its return. *)
ToBegin(m, target, update, origin) ==
    LET c == NewCall(m, "to", origin, target, update)
        m0 == [m EXCEPT !.ops = @ + 1]
        why == BlockedBy(m.current, target)
    IN  IF why # "none" THEN NotifyBlocked(m0, c, why)
        ELSE LET m1 == Push(m0)
                 c1 == [c EXCEPT !.steps = Append(@, Step("push",
                                     m.current.value, m.current))]
             IN  IF handlers[m.current.value].exit
                 THEN Suspend(Effect(m1, "exit", m.current.value,
                                     m.current.context, c.id),
                              [c1 EXCEPT !.steps = Append(@, Step("exit",
                                     m.current.value, m.current))],
                              "exit")
                 ELSE ToCommit(m1, c1)

----------------------------------------------------------------------------
(* Machine.back *)

BackFinish(m, c) ==
    LET ev == TransitionEvent(c.from, c.prev.value, "none", m.current)
        c1 == [c EXCEPT !.steps = Append(@, Step("notify", c.from, m.current))]
    IN  Return(Deliver(m, ev, c.id), c1)

BackCommit(m, c) ==
    LET fromState == m.current.value
        m1 == [m EXCEPT !.current = c.prev]
        c1 == [c EXCEPT !.from = fromState,
                        !.steps = Append(@, Step("commit", fromState,
                                                 m1.current))]
    IN  IF handlers[c.prev.value].enter
        THEN Suspend(Effect(m1, "enter", c.prev.value, c.prev.context, c.id),
                     [c1 EXCEPT !.steps = Append(@, Step("enter", fromState,
                                                         m1.current))],
                     "enter")
        ELSE BackFinish(m1, c1)

(* Variant: `back` reads the newest entry and leaves it in the history. *)
BackBeginPeeks(m, origin) ==
    LET c == NewCall(m, "back", origin, "", NoUpdate)
        m0 == [m EXCEPT !.ops = @ + 1]
        n == Len(m.stateHistory)
    IN  IF n = 0 THEN Return(m0, c)
        ELSE LET prev == m.stateHistory[n]
                 c1 == [c EXCEPT !.prev = prev, !.target = prev.value,
                                 !.steps = Append(@, Step("pop",
                                     m.current.value, prev))]
             IN  IF handlers[m.current.value].exit
                 THEN Suspend(Effect(m0, "exit", m.current.value,
                                     m.current.context, c.id),
                              [c1 EXCEPT !.steps = Append(@, Step("exit",
                                     m.current.value, m.current))],
                              "exit")
                 ELSE BackCommit(m0, c1)

(* Variant: `back` makes the checks of a forward `to` into the entry. *)
BackBeginChecked(m, origin) ==
    LET c == NewCall(m, "back", origin, "", NoUpdate)
        m0 == [m EXCEPT !.ops = @ + 1]
        n == Len(m.stateHistory)
    IN  IF n = 0 THEN Return(m0, c)
        ELSE IF BlockedBy(m.current, m.stateHistory[n].value) # "none"
        THEN NotifyBlocked(m0, [c EXCEPT !.target = m.stateHistory[n].value],
                           BlockedBy(m.current, m.stateHistory[n].value))
        ELSE LET prev == m.stateHistory[n]
                 m1 == [m0 EXCEPT !.stateHistory = SubSeq(@, 1, n - 1)]
                 c1 == [c EXCEPT !.prev = prev, !.target = prev.value,
                                 !.steps = Append(@, Step("pop",
                                     m.current.value, prev))]
             IN  IF handlers[m.current.value].exit
                 THEN Suspend(Effect(m1, "exit", m.current.value,
                                     m.current.context, c.id),
                              [c1 EXCEPT !.steps = Append(@, Step("exit",
                                     m.current.value, m.current))],
                              "exit")
                 ELSE BackCommit(m1, c1)

(* Variant: `back` on an empty history notifies the listeners. *)
BackBeginNotifies(m, origin) ==
    LET c == NewCall(m, "back", origin, "", NoUpdate)
        m0 == [m EXCEPT !.ops = @ + 1]
        n == Len(m.stateHistory)
    IN  IF n = 0
        THEN Return(Deliver(m0, TransitionEvent(m.current.value,
                                                m.current.value, "none",
                                                m.current), c.id), c)
        ELSE LET prev == m.stateHistory[n]
                 m1 == [m0 EXCEPT !.stateHistory = SubSeq(@, 1, n - 1)]
                 c1 == [c EXCEPT !.prev = prev, !.target = prev.value,
                                 !.steps = Append(@, Step("pop",
                                     m.current.value, prev))]
             IN  IF handlers[m.current.value].exit
                 THEN Suspend(Effect(m1, "exit", m.current.value,
                                     m.current.context, c.id),
                              [c1 EXCEPT !.steps = Append(@, Step("exit",
                                     m.current.value, m.current))],
                              "exit")
                 ELSE BackCommit(m1, c1)

(* Variant: `back` takes the oldest entry. *)
BackBeginOldest(m, origin) ==
    LET c == NewCall(m, "back", origin, "", NoUpdate)
        m0 == [m EXCEPT !.ops = @ + 1]
        n == Len(m.stateHistory)
    IN  IF n = 0 THEN Return(m0, c)
        ELSE LET prev == m.stateHistory[1]
                 m1 == [m0 EXCEPT !.stateHistory = Tail(@)]
                 c1 == [c EXCEPT !.prev = prev, !.target = prev.value,
                                 !.steps = Append(@, Step("pop",
                                     m.current.value, prev))]
             IN  IF handlers[m.current.value].exit
                 THEN Suspend(Effect(m1, "exit", m.current.value,
                                     m.current.context, c.id),
                              [c1 EXCEPT !.steps = Append(@, Step("exit",
                                     m.current.value, m.current))],
                              "exit")
                 ELSE BackCommit(m1, c1)

(* `back` from its call to its first await, or to its return. *)
BackBegin(m, origin) ==
    LET c == NewCall(m, "back", origin, "", NoUpdate)
        m0 == [m EXCEPT !.ops = @ + 1]
        n == Len(m.stateHistory)
    IN  IF n = 0 THEN Return(m0, c)
        ELSE LET prev == m.stateHistory[n]
                 m1 == [m0 EXCEPT !.stateHistory = SubSeq(@, 1, n - 1)]
                 c1 == [c EXCEPT !.prev = prev, !.target = prev.value,
                                 !.steps = Append(@, Step("pop",
                                     m.current.value, prev))]
             IN  IF handlers[m.current.value].exit
                 THEN Suspend(Effect(m1, "exit", m.current.value,
                                     m.current.context, c.id),
                              [c1 EXCEPT !.steps = Append(@, Step("exit",
                                     m.current.value, m.current))],
                              "exit")
                 ELSE BackCommit(m1, c1)

(* The effect an invocation awaited has finished. *)
Awaited(m, c) ==
    [c EXCEPT !.steps = Append(@, Step(IF c.pc = "exit" THEN "exited"
                                       ELSE "entered", "", m.current))]

(* The continuation of a suspended invocation after its await. *)
Continue(m, c) ==
    CASE c.op = "to" /\ c.pc = "exit"    -> ToCommit(m, Awaited(m, c))
      [] c.op = "to" /\ c.pc = "enter"   -> ToFinish(m, Awaited(m, c))
      [] c.op = "back" /\ c.pc = "exit"  -> BackCommit(m, Awaited(m, c))
      [] c.op = "back" /\ c.pc = "enter" -> BackFinish(m, Awaited(m, c))

----------------------------------------------------------------------------
(* Machine.run: the loop from a given step on, up to the next delay or to  *)
(* the end of the sequence.  `this.to(...)` is called and not awaited.     *)

(* Variant: the loop is given up when a step is rejected. *)
RECURSIVE RunLoopStopsOnBlock(_, _)
RunLoopStopsOnBlock(m, seq) ==
    IF seq = <<>>
       \/ (m.done # <<>> /\ m.done[Len(m.done)].blocked # "none")
    THEN [m |-> Return(m, NewCall(m, "run", "direct", "", NoUpdate)),
          rest |-> <<>>]
    ELSE IF Head(seq).delay
    THEN [m |-> m, rest |-> seq]
    ELSE RunLoopStopsOnBlock(ToBegin(m, Head(seq).to, Head(seq).update, "run"),
                             Tail(seq))

RECURSIVE RunLoop(_, _)
RunLoop(m, seq) ==
    IF seq = <<>>
    THEN [m |-> Return(m, NewCall(m, "run", "direct", "", NoUpdate)),
          rest |-> <<>>]
    ELSE IF Head(seq).delay
    THEN [m |-> m, rest |-> seq]
    ELSE RunLoop(ToBegin(m, Head(seq).to, Head(seq).update, "run"), Tail(seq))

(* The loop after the delay of the step it waited for. *)
RunAfterDelay(m, seq) ==
    RunLoop(ToBegin(m, Head(seq).to, Head(seq).update, "run"), Tail(seq))

----------------------------------------------------------------------------
(* Machine.transitions *)

(* Variant: the `to` list returned unfiltered. *)
TransitionsToListOnly(cur) ==
    IF handlers[cur.value].hasTo THEN handlers[cur.value].to ELSE handlerOrder

(* Variant: without a `to` list the current state is not skipped. *)
TransitionsKeepsCurrent(cur) ==
    LET FromOk(n) == handlers[n].from.kind # "list"
                     \/ cur.value \in handlers[n].from.names
        GuardOk(n) == guards[n] = "none" \/ GuardHolds(guards[n], cur)
        Keep(n) == FromOk(n) /\ GuardOk(n)
    IN  IF ~handlers[cur.value].hasTo
        THEN SelectSeq(handlerOrder, Keep)
        ELSE SelectSeq(handlers[cur.value].to, Keep)

(* Variant: the guards are not consulted. *)
TransitionsNoGuard(cur) ==
    LET FromOk(n) == handlers[n].from.kind # "list"
                     \/ cur.value \in handlers[n].from.names
        Valid(n) == n # cur.value /\ FromOk(n)
    IN  IF ~handlers[cur.value].hasTo
        THEN SelectSeq(handlerOrder, Valid)
        ELSE SelectSeq(handlers[cur.value].to, FromOk)

(* transitions() *)

Transitions(cur) ==
    LET FromOk(n) == handlers[n].from.kind # "list"
                     \/ cur.value \in handlers[n].from.names
        GuardOk(n) == guards[n] = "none" \/ GuardHolds(guards[n], cur)
        Valid(n) == n # cur.value /\ FromOk(n) /\ GuardOk(n)
        Keep(n) == FromOk(n) /\ GuardOk(n)
    IN  IF ~handlers[cur.value].hasTo
        THEN SelectSeq(handlerOrder, Valid)
        ELSE SelectSeq(handlers[cur.value].to, Keep)

----------------------------------------------------------------------------
(* The caller: one thread of control, which awaits the `to`, `back` and    *)
(* `run` calls it makes before it calls the machine again.                 *)

CallerFree ==
    /\ runSeq = <<>>
    /\ \A i \in 1..Len(calls) : calls[i].origin # "direct"

Apply(r) ==
    /\ current' = r.current
    /\ stateHistory' = r.stateHistory
    /\ calls' = r.calls
    /\ listeners' = r.listeners
    /\ ops' = r.ops
    /\ fx' = r.fx
    /\ log' = r.log
    /\ done' = r.done

config == <<handlers, handlerOrder, guards, plan>>

(* Variant: a registration for a registered name adds to the descriptor    *)
(* kept for it, as Object.assign would: what the new one omits stays.      *)
WhenMerges(n, d) ==
    /\ CallerFree
    /\ handlers' =
           [handlers EXCEPT ![n] =
               IF ~@.has THEN d
               ELSE [k \in DOMAIN @ \cup DOMAIN d |->
                        IF k \notin DOMAIN d THEN @[k]
                        ELSE IF k \notin DOMAIN @ THEN d[k]
                        ELSE IF k \in {"has", "enter", "exit"}
                             THEN @[k] \/ d[k]
                        ELSE IF k = "hasTo" THEN @.hasTo \/ d.hasTo
                        ELSE IF k = "to" THEN (IF d.hasTo THEN d.to ELSE @.to)
                        ELSE IF k = "from"
                             THEN (IF d.from.kind = "absent" THEN @.from
                                   ELSE d.from)
                        ELSE d[k]]]
    /\ handlerOrder' = IF InSeq(n, handlerOrder) THEN handlerOrder
                       ELSE Append(handlerOrder, n)
    /\ plan' = Tail(plan)
    /\ Apply(M)
    /\ UNCHANGED <<guards, runSeq, gen, snap>>

(* when(state, handlers) *)
When(n, d) ==
    /\ CallerFree
    /\ handlers' = [handlers EXCEPT ![n] = d]
    /\ handlerOrder' = IF InSeq(n, handlerOrder) THEN handlerOrder
                       ELSE Append(handlerOrder, n)
    /\ plan' = Tail(plan)
    /\ Apply(M)
    /\ UNCHANGED <<guards, runSeq, gen, snap>>

(* can(state, guard) *)
Can(n, g) ==
    /\ CallerFree
    /\ guards' = [guards EXCEPT ![n] = g]
    /\ plan' = Tail(plan)
    /\ Apply(M)
    /\ UNCHANGED <<handlers, handlerOrder, runSeq, gen, snap>>

(* on(listener) *)
On(l) ==
    /\ CallerFree
    /\ plan' = Tail(plan)
    /\ Apply(Subscribe(M, l))
    /\ UNCHANGED <<handlers, handlerOrder, guards, runSeq, gen, snap>>

(* meta(state): this.handlers.get(state)?.meta *)
Meta(n) ==
    IF "meta" \in DOMAIN handlers[n] THEN handlers[n].meta ELSE "undefined"

(* the function returned by on(listener) *)
Off(l) ==
    /\ CallerFree
    /\ Apply(Unsubscribe([M EXCEPT !.ops = @ + 1], l))
    /\ UNCHANGED <<handlers, handlerOrder, guards, plan, runSeq, gen, snap>>

(* await to(state, update), up to the first await inside it *)
To(target, update) ==
    /\ CallerFree
    /\ Apply(ToBegin(M, target, update, "direct"))
    /\ UNCHANGED <<config, runSeq, gen, snap>>

(* await back(), up to the first await inside it *)
Back ==
    /\ CallerFree
    /\ Apply(BackBegin(M, "direct"))
    /\ UNCHANGED <<config, runSeq, gen, snap>>

(* A suspended `to` or `back` goes on after the effect it awaited. *)
Resume(i) ==
    /\ i \in 1..Len(calls)
    /\ LET rest == [j \in 1..(Len(calls) - 1) |->
                       IF j < i THEN calls[j] ELSE calls[j + 1]]
       IN  Apply(Continue([M EXCEPT !.calls = rest], calls[i]))
    /\ UNCHANGED <<config, runSeq, gen, snap>>

(* The exit or enter effect a suspended `to` or `back` awaits raises. *)
Raise(i) ==
    /\ i \in 1..Len(calls)
    /\ LET rest == [j \in 1..(Len(calls) - 1) |->
                       IF j < i THEN calls[j] ELSE calls[j + 1]]
       IN  Apply(Abandon([M EXCEPT !.calls = rest], calls[i]))
    /\ UNCHANGED <<config, runSeq, gen, snap>>

(* typeof update === 'function' ? update(ctx) : { ...ctx, ...update }       *)
(* Both branches make a new object, also when the update is undefined.     *)
SetContext(ctx, u, id) ==
    IF u.kind = "fn" THEN Alloc(CallFn(u.fn, ctx), id)
    ELSE Alloc(Merge(ctx, u.obj), id)

(* Variant: `set` reports a transition event. *)
SetAsTransition(update) ==
    /\ CallerFree
    /\ LET c == State(current.value,
                      SetContext(current.context, update, ops + 1))
       IN  Apply(Deliver([M EXCEPT !.current = c, !.ops = @ + 1],
                         TransitionEvent(current.value, current.value,
                                         "none", c), 0))
    /\ UNCHANGED <<config, runSeq, gen, snap>>

(* The body of set(update): the new context, then notify(). *)
SetResult(m, update) ==
    LET c == State(m.current.value,
                   SetContext(m.current.context, update, m.ops + 1))
    IN  Deliver([m EXCEPT !.current = c, !.ops = @ + 1], StateEvent(c), 0)

(* set(update) *)
Set(update) ==
    /\ CallerFree
    /\ Apply(SetResult(M, update))
    /\ UNCHANGED <<config, runSeq, gen, snap>>

(* snapshot() *)
Snapshot ==
    /\ CallerFree
    /\ snap' = [has |-> TRUE, state |-> current.value,
                context |-> JsonCopy(current.context, ops + 1)]
    /\ Apply([M EXCEPT !.ops = @ + 1])
    /\ UNCHANGED <<config, runSeq, gen>>

(* Variant: `restore` makes the checks of a forward `to` into the state. *)
RestoreChecked(s) ==
    /\ CallerFree
    /\ LET c == State(s.state, s.context)
           why == BlockedBy(current, s.state)
       IN  Apply(IF why = "none"
                 THEN Deliver([M EXCEPT !.current = c, !.ops = @ + 1],
                              StateEvent(c), 0)
                 ELSE Deliver([M EXCEPT !.ops = @ + 1],
                              TransitionEvent(current.value, s.state, why,
                                              current), 0))
    /\ UNCHANGED <<config, runSeq, gen, snap>>

(* restore(snapshot) *)
Restore(s) ==
    /\ CallerFree
    /\ LET c == State(s.state, s.context)
       IN  Apply(Deliver([M EXCEPT !.current = c, !.ops = @ + 1],
                         StateEvent(c), 0))
    /\ UNCHANGED <<config, runSeq, gen, snap>>

(* The caller writes through a reference it holds to a context object,    *)
(* `ctx.ready = !ctx.ready`: every reference to the object o sees it.      *)
Write(ctx, o) ==
    IF ctx.obj = o
    THEN [ctx EXCEPT !.keys = @ \cup {"ready"}, !.ready = ~@]
    ELSE ctx

WriteState(st, o) == [st EXCEPT !.context = Write(@, o)]

Mutate(o) ==
    /\ CallerFree
    /\ snap' = [snap EXCEPT !.context = Write(@, o)]
    /\ Apply([M EXCEPT
                !.current = WriteState(@, o),
                !.stateHistory = [i \in 1..Len(@) |-> WriteState(@[i], o)],
                !.calls = [i \in 1..Len(@) |->
                              [@[i] EXCEPT !.prev = WriteState(@, o)]],
                !.ops = @ + 1])
    /\ UNCHANGED <<config, runSeq, gen>>

(* Variant: only the newest entry of the history is dropped. *)
ClearHistoryPops ==
    /\ CallerFree
    /\ Apply([M EXCEPT !.stateHistory = SubSeq(@, 1, Len(@) - 1),
                       !.ops = @ + 1])
    /\ UNCHANGED <<config, runSeq, gen, snap>>

(* clearHistory() *)
ClearHistory ==
    /\ CallerFree
    /\ Apply([M EXCEPT !.stateHistory = <<>>, !.ops = @ + 1])
    /\ UNCHANGED <<config, runSeq, gen, snap>>

(* await run(sequence), up to its first delay *)
Run(seq) ==
    /\ CallerFree
    /\ LET r == RunLoop(M, seq)
       IN  Apply(r.m) /\ runSeq' = r.rest
    /\ UNCHANGED <<config, gen, snap>>

(* The delay `run` waits for is over. *)
RunTimer ==
    /\ runSeq # <<>>
    /\ LET r == RunAfterDelay(M, runSeq)
       IN  Apply(r.m) /\ runSeq' = r.rest
    /\ UNCHANGED <<config, gen, snap>>

(* steps() *)
Steps ==
    /\ CallerFree
    /\ gen' = "start"
    /\ Apply([M EXCEPT !.ops = @ + 1])
    /\ UNCHANGED <<config, runSeq, snap>>

(* Variant: the generator returns when it is resumed with no input. *)
StepsNextIdleReturns ==
    /\ CallerFree
    /\ gen # "none"
    /\ gen' = IF gen = "start" THEN "yield" ELSE "done"
    /\ Apply(Return([M EXCEPT !.ops = @ + 1],
                    NewCall(M, "next", "direct", "", NoUpdate)))
    /\ UNCHANGED <<config, runSeq, snap>>

(* next() of the generator with no input, or its first next(): the body    *)
(* runs to the next `yield this.current`.                                  *)
StepsNextIdle ==
    /\ CallerFree
    /\ gen # "none"
    /\ gen' = "yield"
    /\ Apply(Return([M EXCEPT !.ops = @ + 1],
                    NewCall(M, "next", "direct", "", NoUpdate)))
    /\ UNCHANGED <<config, runSeq, snap>>

(* next({to, update}) of a generator suspended at its yield:               *)
(* `this.to(input.to, input.update)` is called and not awaited.            *)
StepsNext(target, update) ==
    /\ CallerFree
    /\ gen = "yield"
    /\ LET r == ToBegin(M, target, update, "steps")
       IN  Apply(Return(r, NewCall(r, "next", "direct", "", NoUpdate)))
    /\ UNCHANGED <<config, runSeq, gen, snap>>

----------------------------------------------------------------------------
(* The callers' inputs. *)

RegWhen(n, d) ==
    [op |-> "when", name |-> n, desc |-> d, guard |-> "none", l |-> 0]
RegCan(n, g) ==
    [op |-> "can", name |-> n, desc |-> NoDesc, guard |-> g, l |-> 0]
RegOn(l) ==
    [op |-> "on", name |-> "", desc |-> NoDesc, guard |-> "none", l |-> l]

(* The builder chains the callers make, as sequences of registrations. *)
Plans ==
    { <<RegWhen("A", Desc(FALSE, TRUE, TRUE, <<"B", "C">>, NoFrom)),
        RegWhen("B", Desc(TRUE, FALSE, TRUE, <<"A">>, NoFrom)),
        RegWhen("C", Desc(FALSE, FALSE, TRUE, <<"B", "A", "C">>,
                          FromList({"A"}))),
        RegCan("A", "notC"),
        RegOn(1), RegOn(2)>>,
      <<RegWhen("A", Desc(FALSE, FALSE, TRUE, <<"A", "C">>, NoFrom)),
        RegWhen("B", Desc(TRUE, FALSE, FALSE, <<>>, FromList({"C"}))),
        RegCan("B", "ready"),
        RegCan("C", "ready"),
        RegOn(2), RegOn(1)>>,
      <<RegWhen("C", Desc(TRUE, TRUE, FALSE, <<>>, AnyFrom)),
        RegWhen("B", Desc(FALSE, TRUE, FALSE, <<>>, FromList({"B", "C"}))),
        RegCan("C", "positive"),
        RegCan("B", "positive"),
        RegOn(1)>>,
      <<RegOn(1)>> }

InitialContexts == {Ctx({"count", "ready"}, 0, FALSE)}
InitialStates == {"A"}

Updates == {NoUpdate, Partial(Ctx({"ready"}, 0, TRUE)), Fn("inc")}

RunSteps == [to : Names, update : {Fn("inc")}, delay : BOOLEAN]

RunSeqs == UNION {[1..n -> RunSteps] : n \in 1..MaxRun}

NoSnap == [has |-> FALSE, state |-> "", context |-> Ctx({}, 0, FALSE)]

----------------------------------------------------------------------------
(* new Machine(initial, context) *)
Init ==
    /\ current \in {State(v, c) : v \in InitialStates, c \in InitialContexts}
    /\ stateHistory = <<>>
    /\ handlers = [n \in Names |-> NoDesc]
    /\ handlerOrder = <<>>
    /\ guards = [n \in Names |-> "none"]
    /\ listeners = <<>>
    /\ calls = <<>>
    /\ runSeq = <<>>
    /\ gen = "none"
    /\ snap = NoSnap
    /\ plan \in Plans
    /\ ops = 0
    /\ fx = <<>>
    /\ log = <<>>
    /\ done = <<>>

Register ==
    /\ plan # <<>>
    /\ \/ Head(plan).op = "when" /\ When(Head(plan).name, Head(plan).desc)
       \/ Head(plan).op = "can" /\ Can(Head(plan).name, Head(plan).guard)
       \/ Head(plan).op = "on" /\ On(Head(plan).l)

(* The caller registers first and then operates the machine, with at most  *)
(* MaxOps operations.                                                      *)
Ready == plan = <<>> /\ ops < MaxOps

Next ==
    \/ Register
    \/ \E l \in ListenerIds : Ready /\ InSeq(l, listeners) /\ Off(l)
    \/ \E t \in Names, u \in Updates : Ready /\ To(t, u)
    \/ Ready /\ Back
    \/ \E i \in 1..Len(calls) : Resume(i)
    \/ \E i \in 1..Len(calls) : Raise(i)
    \/ \E u \in Updates \ {NoUpdate} : Ready /\ Set(u)
    \/ Ready /\ Snapshot
    \/ Ready /\ snap.has /\ Restore(snap)
    \/ Ready /\ snap.has /\ Mutate(snap.context.obj)
    \/ Ready /\ Mutate(current.context.obj)
    \/ Ready /\ ClearHistory
    \/ \E seq \in RunSeqs : Ready /\ ops + Len(seq) <= MaxOps /\ Run(seq)
    \/ RunTimer
    \/ Ready /\ gen = "none" /\ Steps
    \/ Ready /\ StepsNextIdle
    \/ \E t \in Names : Ready /\ StepsNext(t, Fn("inc"))

Spec == Init /\ [][Next]_vars

----------------------------------------------------------------------------
(* A long-lived machine.  Its caller has made MaxDeep - MaxOps - 1 awaited *)
(* `to` calls on the fresh machine, to B and A in turn, and then goes on   *)
(* with any MaxOps + 1 operations.  Every `to` counts the context up, so that  *)
(* the entries of the history can be told apart.                           *)

Fresh ==
    [current |-> State("A", Ctx({"count"}, 0, FALSE)), stateHistory |-> <<>>,
     calls |-> <<>>, listeners |-> <<>>, ops |-> 0, fx |-> <<>>, log |-> <<>>,
     done |-> <<>>]

RECURSIVE Warmup(_)
Warmup(n) ==
    IF n = 0 THEN Fresh
    ELSE LET m == Warmup(n - 1)
         IN  ToBegin([m EXCEPT !.fx = <<>>, !.log = <<>>, !.done = <<>>],
                     IF m.current.value = "A" THEN "B" ELSE "A",
                     Fn("inc"), "direct")

HistPlans ==
    { <<RegWhen("B", Desc(TRUE, FALSE, FALSE, <<>>, NoFrom)), RegOn(1)>> }

HistTargets == {"A", "B"}

(* A snapshot the caller took of the fresh machine: an object of its own. *)
HistSnap ==
    [has |-> TRUE, state |-> "A",
     context |-> Alloc(Ctx({"count"}, 0, FALSE), MaxDeep + 1)]

HistRunSeqs ==
    UNION {[1..n -> [to : HistTargets, update : {Fn("inc")}, delay : BOOLEAN]] :
           n \in 1..MaxRun}

InitHistory ==
    /\ handlers = [n \in Names |-> NoDesc]
    /\ handlerOrder = <<>>
    /\ guards = [n \in Names |-> "none"]
    /\ listeners = <<>>
    /\ LET m == Warmup(MaxDeep - MaxOps - 1)
       IN  /\ current = m.current
           /\ stateHistory = m.stateHistory
           /\ calls = m.calls
           /\ ops = m.ops
    /\ runSeq = <<>>
    /\ gen = "none"
    /\ snap = NoSnap
    /\ plan \in HistPlans
    /\ fx = <<>>
    /\ log = <<>>
    /\ done = <<>>

Deep == plan = <<>> /\ ops < MaxDeep

NextHistory ==
    \/ Register
    \/ \E t \in HistTargets : Deep /\ To(t, Fn("inc"))
    \/ Deep /\ Back
    \/ \E i \in 1..Len(calls) : Resume(i)
    \/ \E i \in 1..Len(calls) : Raise(i)
    \/ Deep /\ Set(Partial(Ctx({"ready"}, 0, TRUE)))
    \/ Deep /\ Restore(HistSnap)
    \/ Deep /\ ClearHistory
    \/ \E seq \in HistRunSeqs : Deep /\ ops + Len(seq) <= MaxDeep /\ Run(seq)
    \/ RunTimer
    \/ Deep /\ gen = "none" /\ Steps
    \/ Deep /\ StepsNextIdle
    \/ \E t \in HistTargets : Deep /\ StepsNext(t, Fn("inc"))

SpecHistory == InitHistory /\ [][NextHistory]_vars

----------------------------------------------------------------------------
(* A caller that drives the machine with `run` and awaited `to` and `set`  *)
(* calls.  The timer of a delay a `run` waits for fires eventually: weak   *)
(* fairness of RunTimer.  RunTimer is enabled exactly when a `run` waits   *)
(* for a delay (runSeq # <<>>) and every RunTimer step shortens runSeq, so *)
(* WF_vars(RunTimer) is the formula TimerFires.                            *)

NextRun ==
    \/ Register
    \/ \E t \in Names, u \in Updates : Ready /\ To(t, u)
    \/ \E u \in Updates \ {NoUpdate} : Ready /\ Set(u)
    \/ \E i \in 1..Len(calls) : Resume(i)
    \/ \E i \in 1..Len(calls) : Raise(i)
    \/ \E seq \in RunSeqs : Ready /\ ops + Len(seq) <= MaxOps /\ Run(seq)
    \/ RunTimer

TimerFires == []<>(runSeq = <<>>) \/ []<><<RunTimer>>_vars

SpecRun == Init /\ [][NextRun]_vars /\ TimerFires

----------------------------------------------------------------------------
(* A machine with a listener that unsubscribes itself inside its callback, *)
(* subscribed between or before listeners that stay.  Every action of this *)
(* caller dispatches at most one event.  The caller keeps the unsubscribe  *)
(* functions of the listeners 1 and 2 and may call each any number of      *)
(* times.                                                                  *)

ListenPlans ==
    { <<RegWhen("A", Desc(FALSE, FALSE, TRUE, <<"B">>, NoFrom)),
        RegOn(1), RegOn(3), RegOn(2)>>,
      <<RegWhen("A", Desc(FALSE, TRUE, TRUE, <<"B">>, NoFrom)),
        RegWhen("B", Desc(TRUE, FALSE, FALSE, <<>>, NoFrom)),
        RegCan("B", "ready"),
        RegOn(3), RegOn(1), RegOn(2)>> }

InitListen ==
    /\ current \in {State(v, c) : v \in InitialStates, c \in InitialContexts}
    /\ stateHistory = <<>>
    /\ handlers = [n \in Names |-> NoDesc]
    /\ handlerOrder = <<>>
    /\ guards = [n \in Names |-> "none"]
    /\ listeners = <<>>
    /\ calls = <<>>
    /\ runSeq = <<>>
    /\ gen = "none"
    /\ snap = NoSnap
    /\ plan \in ListenPlans
    /\ ops = 0
    /\ fx = <<>>
    /\ log = <<>>
    /\ done = <<>>

NextListen ==
    \/ Register
    \/ \E l \in ListenerIds : Ready /\ Off(l)
    \/ \E t \in Names, u \in Updates : Ready /\ To(t, u)
    \/ Ready /\ Back
    \/ \E i \in 1..Len(calls) : Resume(i)
    \/ \E u \in Updates \ {NoUpdate} : Ready /\ Set(u)
    \/ Ready /\ Snapshot
    \/ Ready /\ snap.has /\ Restore(snap)

SpecListen == InitListen /\ [][NextListen]_vars

----------------------------------------------------------------------------
(* A machine whose caller registers a descriptor and a guard for a name    *)
(* that has them already, and operates the machine between and after the   *)
(* registrations.                                                          *)

RegisterPlans ==
    { <<RegWhen("A", DescMeta(FALSE, TRUE, TRUE, <<"B">>, NoFrom, "first")),
        RegWhen("B", Desc(TRUE, FALSE, FALSE, <<>>, FromList({"C"}))),
        RegCan("B", "ready"),
        RegWhen("A", Desc(FALSE, FALSE, FALSE, <<>>, NoFrom)),
        RegWhen("B", DescMeta(FALSE, FALSE, FALSE, <<>>, NoFrom, "second")),
        RegCan("B", "notC"),
        RegOn(1)>>,
      <<RegWhen("A", Desc(TRUE, FALSE, FALSE, <<>>, NoFrom)),
        RegWhen("C", DescMeta(TRUE, FALSE, FALSE, <<>>, NoFrom, "first")),
        RegCan("C", "notC"),
        RegOn(2),
        RegWhen("B", Desc(FALSE, FALSE, FALSE, <<>>, FromList({"C"}))),
        RegWhen("A", Desc(FALSE, TRUE, TRUE, <<"C", "B">>, NoFrom)),
        RegWhen("C", DescMeta(FALSE, TRUE, TRUE, <<"A">>, FromList({"A"}),
                              "second")),
        RegCan("C", "positive")>> }

InitRegister ==
    /\ current \in {State(v, c) : v \in InitialStates, c \in InitialContexts}
    /\ stateHistory = <<>>
    /\ handlers = [n \in Names |-> NoDesc]
    /\ handlerOrder = <<>>
    /\ guards = [n \in Names |-> "none"]
    /\ listeners = <<>>
    /\ calls = <<>>
    /\ runSeq = <<>>
    /\ gen = "none"
    /\ snap = NoSnap
    /\ plan \in RegisterPlans
    /\ ops = 0
    /\ fx = <<>>
    /\ log = <<>>
    /\ done = <<>>

NextRegister ==
    \/ Register
    \/ \E t \in Names, u \in Updates : ops < MaxOps /\ To(t, u)
    \/ ops < MaxOps /\ Back
    \/ \E i \in 1..Len(calls) : Resume(i)

SpecRegister == InitRegister /\ [][NextRegister]_vars

----------------------------------------------------------------------------
(* The data-fetching machine of the examples.  It registers no guard, so   *)
(* that the fields of its context play no part in what it admits; its      *)
(* caller passes the updates of the other callers.                         *)

FetchNames == {"idle", "loading", "success", "error"}

FetchPlan ==
    <<RegWhen("idle", Desc(TRUE, FALSE, TRUE, <<"loading">>, NoFrom)),
      RegWhen("loading", DescMeta(TRUE, FALSE, TRUE, <<"success", "error">>,
                                  FromList({"idle", "error"}), "cancellable")),
      RegWhen("success", Desc(TRUE, FALSE, FALSE, <<>>,
                              FromList({"loading"}))),
      RegWhen("error", Desc(TRUE, FALSE, TRUE, <<"loading", "idle">>,
                            FromList({"loading"})))>>

InitFetch ==
    /\ current \in {State("idle", c) : c \in InitialContexts}
    /\ stateHistory = <<>>
    /\ handlers = [n \in FetchNames |-> NoDesc]
    /\ handlerOrder = <<>>
    /\ guards = [n \in FetchNames |-> "none"]
    /\ listeners = <<>>
    /\ calls = <<>>
    /\ runSeq = <<>>
    /\ gen = "none"
    /\ snap = NoSnap
    /\ plan = FetchPlan
    /\ ops = 0
    /\ fx = <<>>
    /\ log = <<>>
    /\ done = <<>>

NextFetch ==
    \/ Register
    \/ \E t \in FetchNames, u \in Updates : Ready /\ To(t, u)
    \/ Ready /\ Back
    \/ \E i \in 1..Len(calls) : Resume(i)

SpecFetch == InitFetch /\ [][NextFetch]_vars

----------------------------------------------------------------------------
(* A machine with a listener whose callback subscribes another listener.   *)
(* The caller may unsubscribe either of them.  Every action of this caller *)
(* dispatches at most one event.                                           *)

SubscribePlans ==
    { <<RegWhen("A", Desc(FALSE, FALSE, TRUE, <<"B">>, NoFrom)),
        RegOn(1), RegOn(4), RegOn(2)>>,
      <<RegWhen("B", Desc(TRUE, FALSE, FALSE, <<>>, NoFrom)),
        RegOn(4), RegOn(3)>> }

InitSubscribe ==
    /\ current \in {State(v, c) : v \in InitialStates, c \in InitialContexts}
    /\ stateHistory = <<>>
    /\ handlers = [n \in Names |-> NoDesc]
    /\ handlerOrder = <<>>
    /\ guards = [n \in Names |-> "none"]
    /\ listeners = <<>>
    /\ calls = <<>>
    /\ runSeq = <<>>
    /\ gen = "none"
    /\ snap = NoSnap
    /\ plan \in SubscribePlans
    /\ ops = 0
    /\ fx = <<>>
    /\ log = <<>>
    /\ done = <<>>

NextSubscribe ==
    \/ Register
    \/ \E l \in AdderIds \cup {LateId} : Ready /\ InSeq(l, listeners) /\ Off(l)
    \/ \E t \in Names, u \in Updates : Ready /\ To(t, u)
    \/ Ready /\ Back
    \/ \E i \in 1..Len(calls) : Resume(i)
    \/ \E u \in Updates \ {NoUpdate} : Ready /\ Set(u)

SpecSubscribe == InitSubscribe /\ [][NextSubscribe]_vars

----------------------------------------------------------------------------
(* What the claims speak about. *)

(* The invocations in flight and those that returned in the last action. *)
Records ==
    {calls[i] : i \in 1..Len(calls)} \cup {done[i] : i \in 1..Len(done)}

ToRecords == {c \in Records : c.op = "to"}

Returned == {c \in {done[i] : i \in 1..Len(done)} : c.pc = "done"}

Raised == {c \in {done[i] : i \in 1..Len(done)} : c.pc = "raised"}

(* What the listeners received for invocation id in the last action. *)
DeliveriesOf(id) == SelectSeq(log, LAMBDA d : d.call = id)

(* Every subscribed listener, in order, receiving ev once. *)
OncePerListener(ev, id) ==
    [i \in 1..Len(listeners) |-> [l |-> listeners[i], ev |-> ev, call |-> id]]

Kinds(steps) == [i \in 1..Len(steps) |-> steps[i].k]

IsPrefix(s, t) == Len(s) <= Len(t) /\ \A i \in 1..Len(s) : s[i] = t[i]

ToListExcludes(f, t) == handlers[f].hasTo /\ ~InSeq(t, handlers[f].to)

FromListExcludes(f, t) ==
    handlers[t].from.kind = "list" /\ f \notin handlers[t].from.names

GuardRejects(st, t) == guards[t] # "none" /\ ~GuardHolds(guards[t], st)

----------------------------------------------------------------------------
(* C1: every change of the current state name from f to t that a `to`      *)
(* call commits (called directly, by run or by steps) obeys the declared   *)
(* constraints: t is in f's `to` list if f declares one, and f is in t's   *)
(* `from` list if t declares one.                                          *)
C1_CommitsObeyConstraints ==
    \A c \in ToRecords : \A i \in 1..Len(c.steps) :
        (c.steps[i].k = "commit" /\ c.steps[i].from # c.steps[i].st.value)
        => /\ ~ToListExcludes(c.steps[i].from, c.steps[i].st.value)
           /\ ~FromListExcludes(c.steps[i].from, c.steps[i].st.value)

----------------------------------------------------------------------------
(* C2: the history never holds more than maxHistory (10) entries, whatever *)
(* sequence of to, back, set, restore, clearHistory, run and steps calls   *)
(* was made.                                                               *)
C2_HistoryBounded == Len(stateHistory) <= maxHistory

(* A `to` has just committed on a full history, and entries were evicted. *)
C2_Witness ==
    /\ Len(stateHistory) = maxHistory
    /\ stateHistory[1].context.count > 0
    /\ \E c \in Returned : c.op = "to" /\ c.blocked = "none"

----------------------------------------------------------------------------
(* C3: a `to` that passes its checks while the history holds 10 entries    *)
(* removes exactly the oldest entry, keeps the other 9 in order and makes  *)
(* the state it was called in the newest entry; so after k >= 10 `to`      *)
(* calls and nothing else on a fresh machine (k = 15 in the spec) the      *)
(* history is the states the last 10 calls were made in, in order.         *)

(* The states the `to` calls started by this step were made in, in order   *)
(* of the calls, for the calls that passed their checks.                   *)
RECURSIVE PushedFrom(_, _, _)
PushedFrom(R, id, last) ==
    IF id > last THEN <<>>
    ELSE LET cs == {c \in R : c.id = id /\ c.blocked = "none"}
         IN  (IF cs = {} THEN <<>> ELSE <<(CHOOSE c \in cs : TRUE).pre>>)
             \o PushedFrom(R, id + 1, last)

LastN(s, n) == IF Len(s) > n THEN SubSeq(s, Len(s) - n + 1, Len(s)) ELSE s

C3_EvictionStep ==
    LET pushed == PushedFrom(ToRecords', ops + 1, ops')
    IN  (Len(stateHistory) = maxHistory /\ pushed # <<>>)
        => stateHistory' = LastN(stateHistory \o pushed, maxHistory)

C3_OnlyToCalls ==
    (ops = current.context.count /\ ops >= maxHistory /\ calls = <<>>)
    => /\ Len(stateHistory) = maxHistory
       /\ \A j \in 1..maxHistory :
              stateHistory[j].context.count = ops - maxHistory + j - 1

C3_FifoEviction == [][C3_EvictionStep]_vars /\ []C3_OnlyToCalls

(* 15 `to` calls and nothing else were made on the fresh machine. *)
C3_Witness ==
    /\ ops = 15
    /\ current.context.count = 15
    /\ calls = <<>>
    /\ \E c \in Returned : c.op = "to" /\ c.id = 15

----------------------------------------------------------------------------
(* C4: transitions() never contains the current state name.                *)
C4_TransitionsExcludeCurrent == ~InSeq(current.value, Transitions(current))

----------------------------------------------------------------------------
(* C5: a `to` whose target is missing from the `to` list of the state it   *)
(* is called in is rejected as "to", whatever the target's `from` and      *)
(* guard say: it returns at once and every listener receives exactly one   *)
(* transition event (from = current name, to = target, blocked = "to").    *)
C5_BlockedByTo ==
    \A c \in ToRecords :
        ToListExcludes(c.pre.value, c.target)
        => /\ c \in Returned
           /\ c.blocked = "to"
           /\ DeliveriesOf(c.id) =
                  OncePerListener(TransitionEvent(c.pre.value, c.target, "to",
                                                  c.pre), c.id)

(* Rejected as "to" although the `from` list and the guard reject as well. *)
C5_Witness ==
    \E c \in Returned :
        /\ c.op = "to" /\ c.blocked = "to"
        /\ FromListExcludes(c.pre.value, c.target)
        /\ GuardRejects(c.pre, c.target)
        /\ Len(DeliveriesOf(c.id)) = 2

----------------------------------------------------------------------------
(* C6: a `to` that passes the `to` check and whose target declares a       *)
(* `from` list without the current name is rejected as "from", with        *)
(* exactly one transition event per listener; a target whose `from` is     *)
(* absent or the wildcard is never rejected as "from".                     *)
C6_BlockedByFrom ==
    \A c \in ToRecords :
        /\ (~ToListExcludes(c.pre.value, c.target)
            /\ FromListExcludes(c.pre.value, c.target))
           => /\ c \in Returned
              /\ c.blocked = "from"
              /\ DeliveriesOf(c.id) =
                     OncePerListener(TransitionEvent(c.pre.value, c.target,
                                                     "from", c.pre), c.id)
        /\ handlers[c.target].from.kind # "list" => c.blocked # "from"

(* Rejected as "from" although the guard rejects as well. *)
C6_Witness ==
    \E c \in Returned :
        /\ c.op = "to" /\ c.blocked = "from"
        /\ GuardRejects(c.pre, c.target)
        /\ Len(DeliveriesOf(c.id)) = 1

----------------------------------------------------------------------------
(* C7: a `to` that passes the `to` and `from` checks is rejected as        *)
(* "guard", with exactly one transition event per listener, exactly when   *)
(* the target's guard is false on the state the call is made in (the       *)
(* update of the call is not applied first); when the guard is true on     *)
(* that state, as after a `set`, the call is not rejected.                 *)
C7_BlockedByGuard ==
    \A c \in ToRecords :
        (~ToListExcludes(c.pre.value, c.target)
         /\ ~FromListExcludes(c.pre.value, c.target))
        => IF GuardRejects(c.pre, c.target)
           THEN /\ c \in Returned
                /\ c.blocked = "guard"
                /\ DeliveriesOf(c.id) =
                       OncePerListener(TransitionEvent(c.pre.value, c.target,
                                                       "guard", c.pre), c.id)
           ELSE c.blocked = "none"

(* Rejected as "guard" although the call's own update would satisfy it. *)
C7_Witness ==
    \E c \in Returned :
        /\ c.op = "to" /\ c.blocked = "guard"
        /\ ~GuardRejects(State(c.pre.value,
                               ApplyUpdate(c.pre.context, c.update, c.id)),
                        c.target)
        /\ Len(DeliveriesOf(c.id)) > 0

----------------------------------------------------------------------------
(* C8: a step in which every `to` call made is rejected leaves the state   *)
(* name, the context and the history unchanged, runs no exit or enter      *)
(* effect, and the calls return (nothing is left suspended).               *)
C8_RejectedStep ==
    LET new == {c \in ToRecords' : c.id > ops}
    IN  (new # {} /\ \A c \in new : c.blocked # "none")
        => /\ current' = current
           /\ stateHistory' = stateHistory
           /\ fx' = <<>>
           /\ calls' = calls
           /\ new \subseteq Returned'

C8_RejectedFrame == [][C8_RejectedStep]_vars

(* A `to` with an update was rejected on a machine with a history. *)
C8_Witness ==
    \E c \in Returned :
        /\ c.op = "to" /\ c.blocked # "none"
        /\ c.update.kind # "none"
        /\ stateHistory # <<>>

----------------------------------------------------------------------------
(* C9: a `to` that is not rejected takes its steps in this order: append   *)
(* the state it was called in to the history, call the exit effect of that *)
(* state with its context and wait for it, commit to the target, call the  *)
(* enter effect of the target with the committed context and wait for it,  *)
(* notify.  While it waits for the exit effect it has not committed.       *)
ExpectedSteps(c) ==
    <<"push">>
    \o (IF handlers[c.pre.value].exit THEN <<"exit", "exited">> ELSE <<>>)
    \o <<"commit">>
    \o (IF handlers[c.target].enter THEN <<"enter", "entered">> ELSE <<>>)
    \o <<"notify">>

C9_StepOrder ==
    /\ \A c \in ToRecords :
        c.blocked = "none"
        => /\ IsPrefix(Kinds(c.steps), ExpectedSteps(c))
           /\ c \in Returned => Kinds(c.steps) = ExpectedSteps(c)
           /\ c.pc = "exit" => Kinds(c.steps) = <<"push", "exit">>
           /\ c.pc = "enter" => c.steps[Len(c.steps)].k = "enter"
           /\ \A i \in 1..Len(c.steps) :
                /\ c.steps[i].k \in {"push", "exit"} => c.steps[i].st = c.pre
                /\ c.steps[i].k = "commit" => c.steps[i].st.value = c.target
                /\ c.steps[i].k = "enter" => c.steps[i].st = c.steps[i - 1].st
    /\ \A j \in 1..Len(fx) : \E c \in Records : \E i \in 1..Len(c.steps) :
        /\ c.id = fx[j].call
        /\ c.steps[i].k = fx[j].kind
        /\ c.steps[i].st = State(fx[j].state, fx[j].ctx)

(* A `to` with an update, an exit and an enter effect has returned. *)
C9_Witness ==
    \E c \in Returned :
        /\ c.op = "to"
        /\ c.update.kind # "none"
        /\ Kinds(c.steps) = <<"push", "exit", "exited", "commit", "enter",
                              "entered", "notify">>

----------------------------------------------------------------------------
(* C10: a `to` that commits delivers to every subscribed listener exactly  *)
(* one transition event without `blocked`, with from = the state name      *)
(* current when `to` was called, to = the target and state = the committed *)
(* (target, new context).                                                  *)
Committed(c) ==
    (CHOOSE st \in {c.steps[i] : i \in 1..Len(c.steps)} : st.k = "commit").st

C10_CommitEvent ==
    \A c \in Returned :
        (c.op = "to" /\ c.blocked = "none")
        => DeliveriesOf(c.id) =
               OncePerListener(TransitionEvent(c.pre.value, c.target, "none",
                                               Committed(c)), c.id)

----------------------------------------------------------------------------
(* C11: the context after a committing `to` or after `set` follows one     *)
(* update rule applied to the old context: no update leaves the context    *)
(* as it is (the same object), a partial object overrides exactly the keys *)
(* it names and keeps every other key, and a function update replaces the  *)
(* context by the function's result.                                       *)
FollowsRule(old, u, new) ==
    CASE u.kind = "none" -> new = old
      [] u.kind = "partial" ->
            /\ new.keys = old.keys \cup u.obj.keys
            /\ new.count = IF "count" \in u.obj.keys THEN u.obj.count
                           ELSE old.count
            /\ new.ready = IF "ready" \in u.obj.keys THEN u.obj.ready
                           ELSE old.ready
      [] u.kind = "fn" ->
            LET r == CallFn(u.fn, old)
            IN  new.keys = r.keys /\ new.count = r.count /\ new.ready = r.ready

C11_SetStep ==
    \A u \in Updates \ {NoUpdate} :
        (current'.context.obj = ops + 1 /\ snap' = snap /\ Set(u))
        => FollowsRule(current.context, u, current'.context)

C11_ToCommit ==
    \A c \in ToRecords : \A i \in 1..Len(c.steps) :
        c.steps[i].k = "commit"
        => FollowsRule(c.steps[i - 1].st.context, c.update,
                       c.steps[i].st.context)

C11_UpdateRule == [][C11_SetStep]_vars /\ []C11_ToCommit

(* A `to` with a partial update has committed over a context that a        *)
(* function update had made: the key it names is set, the other is kept.   *)
C11_Witness ==
    \E c \in Returned :
        /\ c.op = "to" /\ c.update.kind = "partial"
        /\ c.pre.context.count > 0
        /\ ~c.pre.context.ready
        /\ current.context.count = c.pre.context.count
        /\ current.context.ready

----------------------------------------------------------------------------
(* C12: every committing `to` makes the state it was called in (value and  *)
(* context) the newest history entry: a step that starts `to` calls which  *)
(* pass their checks appends the states they were called in, in order.  So *)
(* while only such calls have been made on a fresh machine (at most 10),   *)
(* the first entry is the initial state and there is one entry per call.   *)
C12_PushStep ==
    LET pushed == PushedFrom(ToRecords', ops + 1, ops')
    IN  Len(stateHistory) + Len(pushed) <= maxHistory
        => \/ pushed = <<>>
           \/ stateHistory' = stateHistory \o pushed

C12_FromFresh ==
    (Len(stateHistory) = ops /\ ops > 0)
    => stateHistory[1] \in {State(v, c) : v \in InitialStates,
                                          c \in InitialContexts}

C12_NewestEntry == [][C12_PushStep]_vars /\ []C12_FromFresh

(* Two `to` calls have committed on a fresh machine: A -> B -> C. *)
C12_Witness ==
    /\ ops = 2 /\ Len(stateHistory) = 2 /\ calls = <<>>
    /\ stateHistory[2].value = "B" /\ current.value = "C"
    /\ stateHistory[2].context # stateHistory[1].context
    /\ \E c \in Returned : c.op = "to" /\ c.pre = stateHistory[2]

----------------------------------------------------------------------------
(* C13: history changes only together with a commit, so a `to` or `back`   *)
(* abandoned because its exit effect raised leaves the history unchanged.  *)
(* When the last operation issued was such a `to`, the history has fewer   *)
(* entries than operations were issued (an entry needs a commit); when it  *)
(* was such a `back`, the entry it looked at is still the newest.          *)
C13_UncommittedLeavesHistory ==
    \A c \in Raised :
        (~InSeq("commit", Kinds(c.steps)) /\ c.id = ops)
        => /\ c.op = "to" => Len(stateHistory) < ops
           /\ c.op = "back" => /\ stateHistory # <<>>
                               /\ stateHistory[Len(stateHistory)] = c.prev

----------------------------------------------------------------------------
(* C14: with a non-empty history, `back` takes the newest entry off the    *)
(* history, leaving the older entries as they are and in order, and        *)
(* commits CurrentState to that entry (its value and its context); `back`  *)
(* appends nothing, neither when called nor when it goes on.               *)
BackRecords == {c \in Records : c.op = "back"}

C14_BackStep ==
    /\ \A c \in BackRecords' :
        (c.id > ops /\ stateHistory # <<>>)
        => /\ c.prev = stateHistory[Len(stateHistory)]
           /\ stateHistory' = SubSeq(stateHistory, 1, Len(stateHistory) - 1)
    /\ \A i \in 1..Len(calls) :
        (calls[i].op = "back" /\ Resume(i)) => stateHistory' = stateHistory

C14_BackCommit ==
    \A c \in BackRecords :
        /\ \A i \in 1..Len(c.steps) :
            c.steps[i].k = "commit" => c.steps[i].st = c.prev
        /\ (c \in Returned /\ c.prev # NoState)
           => InSeq("commit", Kinds(c.steps))

C14_BackRestoresNewest == [][C14_BackStep]_vars /\ []C14_BackCommit

(* After two committed `to` calls a `back` has returned: the machine is in *)
(* the state the second `to` was called in and the first entry remains.    *)
C14_Witness ==
    \E c \in Returned :
        /\ c.op = "back" /\ c.id = 3
        /\ current = c.prev
        /\ c.prev.context # c.pre.context
        /\ Len(stateHistory) = 1
        /\ stateHistory[1] # c.prev

----------------------------------------------------------------------------
(* C15: `back` on an empty history is a no-op: state name, context and     *)
(* history stay as they are, no exit or enter effect runs, no listener is  *)
(* notified, and the call returns.                                         *)
C15_EmptyBackStep ==
    \A c \in BackRecords' :
        (c.id > ops /\ stateHistory = <<>>)
        => /\ current' = current
           /\ stateHistory' = <<>>
           /\ fx' = <<>>
           /\ log' = <<>>
           /\ calls' = calls
           /\ c \in Returned'

C15_EmptyBackNoOp == [][C15_EmptyBackStep]_vars

(* `back` has returned on an empty history, in a state with an exit effect *)
(* and with listeners subscribed.                                          *)
C15_Witness ==
    \E c \in Returned :
        /\ c.op = "back" /\ c.steps = <<>>
        /\ stateHistory = <<>>
        /\ handlers[current.value].exit
        /\ Len(listeners) = 2

----------------------------------------------------------------------------
(* C16: a `back` that finds a history entry runs, in this order: the exit  *)
(* effect of the state it is called in with the current context, the       *)
(* commit of CurrentState to the entry, the enter effect of the restored   *)
(* state with the restored context, and then exactly one unblocked         *)
(* transition event per listener with from = the state left and to = the   *)
(* restored state name.                                                    *)
ExpectedBackSteps(c) ==
    <<"pop">>
    \o (IF handlers[c.pre.value].exit THEN <<"exit", "exited">> ELSE <<>>)
    \o <<"commit">>
    \o (IF handlers[c.prev.value].enter THEN <<"enter", "entered">> ELSE <<>>)
    \o <<"notify">>

C16_BackOrder ==
    \A c \in BackRecords :
        c.prev # NoState
        => /\ IsPrefix(Kinds(c.steps), ExpectedBackSteps(c))
           /\ c.pc = "exit" => Kinds(c.steps) = <<"pop", "exit">>
           /\ c.pc = "enter" => c.steps[Len(c.steps)].k = "enter"
           /\ \A i \in 1..Len(c.steps) :
                /\ c.steps[i].k = "exit" => c.steps[i].st = c.pre
                /\ c.steps[i].k = "enter" => c.steps[i].st = c.prev
           /\ \A j \in 1..Len(fx) :
                fx[j].call = c.id
                => \/ fx[j].kind = "exit" /\ fx[j].state = c.pre.value
                      /\ fx[j].ctx = c.pre.context
                   \/ fx[j].kind = "enter" /\ fx[j].state = c.prev.value
                      /\ fx[j].ctx = c.prev.context
           /\ c \in Returned
              => /\ Kinds(c.steps) = ExpectedBackSteps(c)
                 /\ LET ds == DeliveriesOf(c.id)
                    IN  /\ [i \in 1..Len(ds) |-> ds[i].l] = listeners
                        /\ \A i \in 1..Len(ds) :
                            /\ ds[i].ev.type = "transition"
                            /\ ds[i].ev.blocked = "none"
                            /\ ds[i].ev.from = c.pre.value
                            /\ ds[i].ev.to = c.prev.value

----------------------------------------------------------------------------
(* C17: `back` is unconditional.  Called on a non-empty history it always  *)
(* takes the entry, whatever `to` list, `from` constraint or guard would   *)
(* reject a forward `to` into that state; it is never rejected, reports no *)
(* blocked event, and when it returns it has committed to the entry.       *)
C17_BackStep ==
    \A c \in BackRecords' :
        (c.id > ops /\ stateHistory # <<>>)
        => c.prev # NoState /\ c.steps[1].k = "pop"

C17_NeverBlocked ==
    \A c \in BackRecords :
        /\ c.blocked = "none"
        /\ \A j \in 1..Len(log) : log[j].call = c.id
                                  => log[j].ev.blocked = "none"
        /\ (c \in Returned /\ c.prev # NoState)
           => \E i \in 1..Len(c.steps) :
                 c.steps[i].k = "commit" /\ c.steps[i].st = c.prev

C17_BackUnconditional == [][C17_BackStep]_vars /\ []C17_NeverBlocked

(* `back` has committed to a state that a forward `to` from the state it   *)
(* was called in would have been rejected for.                             *)
C17_Witness ==
    \E c \in Returned :
        /\ c.op = "back" /\ c.prev # NoState
        /\ current = c.prev
        /\ BlockedBy(c.pre, c.prev.value) # "none"
        /\ log # <<>>

----------------------------------------------------------------------------
(* C18: `set(update)` always succeeds and changes only the context: the    *)
(* state name and the history are unchanged, no invocation is started or   *)
(* resumed, no exit or enter effect runs, and every listener receives      *)
(* exactly one plain state-change event (value, new context), which is not *)
(* a transition event.  A step is a `set` only if the new context is the  *)
(* object this operation made and the caller's snapshot is untouched, so   *)
(* those two are tested first; "always succeeds" is checked in every state *)
(* in which the caller is free to issue an operation: the body of `set`    *)
(* has no test in it and yields a state of the same name.                  *)
C18_SetStep ==
    \A u \in Updates \ {NoUpdate} :
        (current'.context.obj = ops + 1 /\ snap' = snap /\ Set(u))
        => /\ current'.value = current.value
           /\ stateHistory' = stateHistory
           /\ calls' = calls
           /\ fx' = <<>>
           /\ done' = <<>>
           /\ Len(log') = Len(listeners)
           /\ \A i \in 1..Len(log') :
                /\ log'[i].l = listeners[i]
                /\ log'[i].ev.type = "state"
                /\ log'[i].ev.state = current'

C18_SetEnabled ==
    \A u \in Updates \ {NoUpdate} :
        (Ready /\ CallerFree)
        => LET r == SetResult(M, u)
           IN  /\ r.current.value = current.value
               /\ r.current.context.obj = ops + 1
               /\ r.stateHistory = stateHistory
               /\ r.calls = calls
               /\ Len(r.log) = Len(listeners)

C18_SetOnlyContext == [][C18_SetStep]_vars /\ []C18_SetEnabled

(* `set` has just made a new context in a state that has a history, whose  *)
(* guard is false on the new context, and both listeners were told.        *)
C18_Witness ==
    /\ Len(log) = 2
    /\ \A i \in 1..Len(log) : log[i].ev.type = "state"
    /\ current.context.obj = ops
    /\ stateHistory # <<>>
    /\ guards[current.value] # "none"
    /\ ~GuardHolds(guards[current.value], current)

----------------------------------------------------------------------------
(* C19: a snapshot is detached from the machine.  `snapshot()` returns the *)
(* current state name and a context with the values of the current one in  *)
(* an object of its own, which the machine holds nowhere; and no later     *)
(* set, to, back or clearHistory (nor a resumption of one) changes it: the *)
(* snapshot the caller holds changes only when the caller takes another or *)
(* writes into an object itself.                                           *)
HeldByMachine ==
    {current.context.obj}
    \cup {stateHistory[i].context.obj : i \in 1..Len(stateHistory)}
    \cup {calls[i].prev.context.obj :
              i \in {j \in 1..Len(calls) : calls[j].op = "back"}}

SameValues(a, b) ==
    a.keys = b.keys /\ a.count = b.count /\ a.ready = b.ready

C19_SnapshotStep ==
    Snapshot
    => /\ snap'.has
       /\ snap'.state = current.value
       /\ SameValues(snap'.context, current.context)
       /\ snap'.context.obj \notin HeldByMachine'

C19_LaterStep ==
    snap' # snap
    => \/ Snapshot
       \/ Mutate(snap.context.obj)
       \/ Mutate(current.context.obj)

C19_SnapshotDetached == [][C19_SnapshotStep /\ C19_LaterStep]_vars

(* The snapshot taken of the fresh machine is as it was, after a `set` and *)
(* a committed `to` have changed both the state name and the context.      *)
C19_Witness ==
    /\ snap.has /\ snap.state = "A"
    /\ snap.context \in {Alloc(c, 1) : c \in InitialContexts}
    /\ ops = 3
    /\ current.value # "A"
    /\ current.context.count > 0
    /\ current.context.ready

----------------------------------------------------------------------------
(* C20: in every reachable state the live context is not the same object   *)
(* as the context of the snapshot, also after `restore(s)`: a write to     *)
(* s.context does not change the machine's context, and a write to the     *)
(* machine's context object does not change s.context.                     *)
C20_NotSameObject ==
    snap.has => current.context.obj # snap.context.obj

C20_WriteStep ==
    /\ (snap.has /\ Mutate(snap.context.obj)) => current' = current
    /\ (snap.has /\ Mutate(current.context.obj)) => snap' = snap

C20_SnapshotNeverAliased == []C20_NotSameObject /\ [][C20_WriteStep]_vars

----------------------------------------------------------------------------
(* C21: `restore(s)` sets the state name to s.state and the context to     *)
(* s.context whatever the `to`/`from` constraints and guards say, leaves   *)
(* the history unchanged, starts or resumes no invocation, runs no exit or *)
(* enter effect, and every listener receives exactly one plain             *)
(* state-change event; `state` and `context` read afterwards are the       *)
(* snapshotted values.  A caller that holds a snapshot and is free to      *)
(* issue an operation can always restore it.                               *)
C21_RestoreStep ==
    (snap.has /\ snap' = snap /\ Restore(snap))
    => /\ current'.value = snap.state
       /\ current'.context = snap.context
       /\ stateHistory' = stateHistory
       /\ calls' = calls
       /\ fx' = <<>>
       /\ done' = <<>>
       /\ log' = [i \in 1..Len(listeners) |->
                     [l |-> listeners[i], ev |-> StateEvent(current'),
                      call |-> 0]]

C21_RestoreEnabled == (Ready /\ CallerFree /\ snap.has) => ENABLED Restore(snap)

C21_RestoreUnconditional == [][C21_RestoreStep]_vars /\ []C21_RestoreEnabled

(* `restore` has just been called right after `snapshot` on the new        *)
(* machine, in a state whose `to` list rejects a `to` into the snapshotted *)
(* state: the context is now the snapshot's object and both listeners were *)
(* told.                                                                   *)
C21_Witness ==
    /\ snap.has /\ snap.context.obj = 1
    /\ ops = 2
    /\ current = State(snap.state, snap.context)
    /\ Len(log) = 2
    /\ \A i \in 1..Len(log) : log[i].ev = StateEvent(current)
    /\ \A v \in InitialStates, c \in InitialContexts :
           BlockedBy(State(v, c), snap.state) = "to"

----------------------------------------------------------------------------
(* C22: a resumption of steps() with {to, update} drives exactly one `to`  *)
(* call, and the value it yields is the current state as it stands after   *)
(* that attempt has finished: (target, updated context) when the attempt   *)
(* commits, the unchanged state when it is blocked; also when the state    *)
(* left has an exit effect or the target an enter effect.                  *)

(* The value a next() of the generator returned: `yield this.current`. *)
Yielded(n) == n.pre

(* The next() calls with an input that returned in the last action: their  *)
(* `to` call took the operation number, the record of next() follows it.   *)
NextWithInput == {n \in Returned : n.op = "next" /\ n.id = ops + 1}

(* The `to` calls the generator made in the last action. *)
DrivenBySteps == {c \in ToRecords : c.origin = "steps" /\ c.id = ops}

(* The state a `to` call leads to when nothing else touches the machine. *)
Outcome(c) ==
    IF BlockedBy(c.pre, c.target) # "none" THEN c.pre
    ELSE State(c.target, ApplyUpdate(c.pre.context, c.update, c.id))

C22_StepsYieldsOutcome ==
    \A n \in NextWithInput :
        /\ Cardinality(DrivenBySteps) = 1
        /\ \A c \in DrivenBySteps :
               /\ Yielded(n) = Outcome(c)
               /\ c.pc \in {"done", "enter"}

----------------------------------------------------------------------------
(* C23: a resumption of steps() with no input calls no `to`, changes       *)
(* neither the state, the context nor the history, emits no event, runs no *)
(* effect and yields the current state; and the generator is never done:   *)
(* after any resumptions it is suspended at its `yield` and can be resumed *)
(* again.                                                                  *)
C23_IdleStep ==
    StepsNextIdle
    => /\ current' = current
       /\ stateHistory' = stateHistory
       /\ calls' = calls
       /\ log' = <<>>
       /\ fx' = <<>>
       /\ Len(done') = 1
       /\ done'[1].op = "next" /\ done'[1].pc = "done"
       /\ Yielded(done'[1]) = current

C23_NeverDone ==
    /\ gen \in {"none", "start", "yield"}
    /\ \A n \in Returned : n.op = "next" => gen = "yield"
    /\ (Ready /\ CallerFree /\ gen # "none") => ENABLED StepsNextIdle

C23_IdleResumption == [][C23_IdleStep]_vars /\ []C23_NeverDone

(* The generator, suspended at its yield, was resumed with no input as the *)
(* third operation on a machine with listeners: it yielded the current     *)
(* state and nothing was told.                                             *)
C23_Witness ==
    /\ gen = "yield"
    /\ ops = 3
    /\ \E n \in Returned : n.op = "next" /\ n.id = ops /\ Yielded(n) = current
    /\ Len(listeners) = 2
    /\ log = <<>>

----------------------------------------------------------------------------
(* C24: `run` executes its steps one after the other: the `to` call of a   *)
(* step does not begin before the `to` call of the step before it has      *)
(* finished its exit effect, commit, enter effect and notification, so two *)
(* steps of one `run` are never in flight together.  One action starts     *)
(* `to` calls for one `run` only: of the calls it started, each but the    *)
(* last has returned.                                                      *)
StartedByRun(R, first) == {c \in R : c.origin = "run" /\ c.id >= first}

C24_RunStep ==
    \A c1, c2 \in StartedByRun(ToRecords', ops + 1) :
        c1.id < c2.id => c1.pc = "done"

C24_RunSequential == [][C24_RunStep]_vars

----------------------------------------------------------------------------
(* C25: when the promise returned by `run(sequence)` resolves, every       *)
(* step's transition has run to completion, so the state, the context and  *)
(* the history are those obtained by awaiting `to(step.to, step.update)`   *)
(* for each step in order on an identical machine.                         *)

(* An awaited `to` on a machine with no other invocation in flight: the    *)
(* call and its resumptions up to its return.                              *)
RECURSIVE Settle(_)
Settle(m) ==
    IF m.calls = <<>> THEN m
    ELSE Settle(Continue([m EXCEPT !.calls = SubSeq(@, 1, Len(@) - 1)],
                         m.calls[Len(m.calls)]))

RECURSIVE AwaitEach(_, _)
AwaitEach(m, seq) ==
    IF seq = <<>> THEN m
    ELSE AwaitEach(Settle(ToBegin(m, Head(seq).to, Head(seq).update,
                                  "direct")), Tail(seq))

RunResolved(D) == \E i \in 1..Len(D) : D[i].op = "run"

(* A `run` with no delays, called with nothing in flight, has resolved. *)
C25_RunStep ==
    (calls = <<>> /\ RunResolved(done'))
    => \A seq \in RunSeqs :
           Run(seq)
           => /\ current' = AwaitEach(M, seq).current
              /\ stateHistory' = AwaitEach(M, seq).stateHistory

C25_Completed ==
    RunResolved(done) => \A i \in 1..Len(calls) : calls[i].origin # "run"

C25_RunAsAwaitedTos == []C25_Completed /\ [][C25_RunStep]_vars

----------------------------------------------------------------------------
(* C26: `run` calls `to` exactly once for every step, in list order, and   *)
(* goes on to the next step also when the step before was rejected; and    *)
(* every `run` eventually completes.  In one stretch the loop starts the   *)
(* `to` calls of the steps up to the next delay, one call per step with    *)
(* the step's target and update, and keeps the steps after them; it        *)
(* resolves exactly when no step is left.                                  *)

(* The number of steps at the head of seq that have no delay. *)
RECURSIVE Lead(_)
Lead(seq) ==
    IF seq = <<>> \/ Head(seq).delay THEN 0 ELSE 1 + Lead(Tail(seq))

OneCallPerStep(seq, k, started, rest, resolved) ==
    /\ \A j \in 1..k :
           Cardinality({c \in started : /\ c.id = ops + j
                                        /\ c.target = seq[j].to
                                        /\ c.update = seq[j].update}) = 1
    /\ Cardinality(started) = k
    /\ rest = SubSeq(seq, k + 1, Len(seq))
    /\ resolved <=> k = Len(seq)

(* The `to` calls among the invocations the record m holds. *)
ToRecordsOf(m) ==
    {c \in {m.calls[i] : i \in 1..Len(m.calls)}
           \cup {m.done[i] : i \in 1..Len(m.done)} : c.op = "to"}

(* `run(seq)` called in this state, for every sequence the caller may      *)
(* pass: the stretch up to the first delay.                                *)
C26_RunCall ==
    (Ready /\ CallerFree)
    => \A seq \in RunSeqs :
           ops + Len(seq) <= MaxOps
           => LET r == RunLoop(M, seq)
              IN  OneCallPerStep(seq, Lead(seq),
                                 StartedByRun(ToRecordsOf(r.m), ops + 1),
                                 r.rest, RunResolved(r.m.done))

C26_TimerStep ==
    (runSeq # <<>> /\ RunTimer)
    => OneCallPerStep(runSeq, 1 + Lead(Tail(runSeq)),
                      StartedByRun(ToRecords', ops + 1), runSeq',
                      RunResolved(done'))

C26_Completes == (runSeq # <<>>) ~> RunResolved(done)

C26_RunAttemptsEveryStep ==
    /\ []C26_RunCall
    /\ [][C26_TimerStep]_vars
    /\ C26_Completes

(* A `run` has resolved in a stretch in which it started the `to` call of  *)
(* a step right after the `to` call of the step before it was rejected.    *)
C26_Witness ==
    /\ RunResolved(done)
    /\ runSeq = <<>>
    /\ \E c1, c2 \in ToRecords :
           /\ c1.origin = "run" /\ c2.origin = "run"
           /\ c2.id = c1.id + 1
           /\ c1.blocked # "none" /\ c1 \in Returned

----------------------------------------------------------------------------
(* C27: a fault raised by an effect during a transition is not swallowed:  *)
(* it reaches whoever awaited the `to`, `back` or `run` call that drove    *)
(* the transition, whose promise is rejected.  The invocation a fault ends *)
(* is either awaited by the caller itself, or was started by a `run`,      *)
(* whose promise is then rejected with it.                                 *)
C27_FaultReachesAwaiter ==
    \A c \in Raised :
        /\ c.origin = "direct" => c.pc = "raised"
        /\ c.origin = "run" => \E r \in Raised : r.op = "run"

----------------------------------------------------------------------------
(* C28: when the descriptor of the current state declares a `to` list,     *)
(* transitions() returns that list in declared order, restricted to the    *)
(* entries whose `from` is absent, the wildcard or contains the current    *)
(* state name and whose guard (if any) is true on the current state;       *)
(* nothing outside the `to` list is returned.                              *)

(* A `to` into n from the state st passes n's `from` and n's guard. *)
Admits(st, n) == ~FromListExcludes(st.value, n) /\ ~GuardRejects(st, n)

(* The entries of s that admit st, in the order of s. *)
RECURSIVE Admitted(_, _)
Admitted(s, st) ==
    IF s = <<>> THEN <<>>
    ELSE (IF Admits(st, Head(s)) THEN <<Head(s)>> ELSE <<>>)
         \o Admitted(Tail(s), st)

C28_ToListFiltered ==
    handlers[current.value].hasTo
    => /\ Transitions(current) = Admitted(handlers[current.value].to, current)
       /\ \A i \in 1..Len(Transitions(current)) :
              InSeq(Transitions(current)[i], handlers[current.value].to)

(* The machine is in a state whose `to` list has an entry that is kept, an *)
(* entry whose `from` list rejects the state and an entry whose guard is   *)
(* false: transitions() is the kept entry alone.                           *)
C28_Witness ==
    LET to == handlers[current.value].to
    IN  /\ handlers[current.value].hasTo
        /\ \E i \in 1..Len(to) : FromListExcludes(current.value, to[i])
        /\ \E i \in 1..Len(to) :
               /\ ~FromListExcludes(current.value, to[i])
               /\ GuardRejects(current, to[i])
        /\ Transitions(current) # <<>>
        /\ Len(Transitions(current)) < Len(to)

----------------------------------------------------------------------------
(* C29: when the current state has no descriptor, or a descriptor with no  *)
(* `to` list, transitions() returns, in registration order, exactly the    *)
(* other registered state names whose `from` is the wildcard, absent or    *)
(* contains the current state name and whose guard (if any) is true on the *)
(* current state.                                                          *)

(* The registered names other than n, in registration order. *)
OthersRegistered(n) == SelectSeq(handlerOrder, LAMBDA x : x # n)

C29_AllOthersFiltered ==
    ~handlers[current.value].hasTo
    => /\ Transitions(current) =
              Admitted(OthersRegistered(current.value), current)
       /\ \A n \in Names :
              InSeq(n, Transitions(current))
              <=> /\ n # current.value
                  /\ handlers[n].has
                  /\ Admits(current, n)

(* The machine is in a registered state with no `to` list that admits     *)
(* itself, and of the other registered states one is returned.             *)
C29_Witness ==
    /\ handlers[current.value].has
    /\ ~handlers[current.value].hasTo
    /\ Admits(current, current.value)
    /\ Len(handlerOrder) > 1
    /\ Len(Transitions(current)) = 1

----------------------------------------------------------------------------
(* C30: each listener subscribed when an event is dispatched is invoked    *)
(* exactly once for that event, in subscription order, whatever the kind   *)
(* of the event (committed transition, blocked attempt, set, restore); a   *)
(* listener that unsubscribes itself inside its own callback causes no     *)
(* other listener to be skipped or invoked twice for that event, and is    *)
(* itself no longer subscribed afterwards.                                 *)
C30_DispatchStep ==
    log' # <<>>
    => /\ Len(log') = Len(listeners)
       /\ \A i \in 1..Len(log') :
              /\ log'[i].l = listeners[i]
              /\ log'[i].ev = log'[1].ev
       /\ listeners' = SelectSeq(listeners, LAMBDA x : x \notin OnceIds)

(* Machine.listeners is a Set: no listener is subscribed twice. *)
C30_Distinct ==
    \A i, j \in 1..Len(listeners) : listeners[i] = listeners[j] => i = j

C30_EachListenerOnce == [][C30_DispatchStep]_vars /\ []C30_Distinct

(* A blocked attempt was just reported to three listeners, the second of   *)
(* which unsubscribed itself in its callback: the third was invoked after  *)
(* it, and the two others are still subscribed.                            *)
C30_Witness ==
    /\ Len(log) = 3
    /\ log[1].ev.blocked # "none"
    /\ log[2].l \in OnceIds
    /\ log[3].l = 2
    /\ listeners = <<1, 2>>

----------------------------------------------------------------------------
(* C31: every commit of the current state made by an operation is          *)
(* followed, before the operation ends, by a notification of the           *)
(* listeners: no `to` or `back` ends, by returning or by raising, with a   *)
(* commit made and no event dispatched for it.                             *)
HasStep(c, k) == \E i \in 1..Len(c.steps) : c.steps[i].k = k

Ended == {done[i] : i \in 1..Len(done)}

C31_CommitNotified ==
    \A c \in Ended :
        (c.op \in {"to", "back"} /\ HasStep(c, "commit"))
        => \E j \in 1..Len(c.steps) :
               /\ c.steps[j].k = "notify"
               /\ \A n \in 1..Len(listeners) :
                      \E i \in 1..Len(log) :
                          /\ log[i].l = listeners[n]
                          /\ log[i].call = c.id
                          /\ log[i].ev.state = c.steps[j].st

----------------------------------------------------------------------------
(* C32: after the unsubscribe function returned by `on(listener)` has been *)
(* called, the listener is invoked for no event of any later operation,    *)
(* while the remaining listeners keep receiving every event; calling the   *)
(* unsubscribe function again changes nothing.  Once the registrations are *)
(* made, a listener that is not subscribed has been unsubscribed.          *)
C32_OffStep ==
    \A l \in ListenerIds :
        Off(l)
        => /\ listeners' = SelectSeq(listeners, LAMBDA x : x # l)
           /\ ~InSeq(l, listeners) => listeners' = listeners
           /\ log' = <<>>
           /\ <<current, stateHistory, calls>>' = <<current, stateHistory, calls>>

C32_AfterOff ==
    \A l \in ListenerIds :
        (plan = <<>> /\ ~InSeq(l, listeners))
        => /\ ~InSeq(l, listeners')
           /\ \A i \in 1..Len(log') : log'[i].l # l

C32_OthersKeepReceiving ==
    log' # <<>>
    => \A n \in 1..Len(listeners) : \E i \in 1..Len(log') :
           log'[i].l = listeners[n]

C32_Unsubscribed ==
    [][C32_OffStep /\ C32_AfterOff /\ C32_OthersKeepReceiving]_vars

(* Listener 2 was unsubscribed and the third operation then dispatched an  *)
(* event: listener 1 received it, listener 2 did not.                      *)
C32_Witness ==
    /\ plan = <<>>
    /\ ops = 3
    /\ ~InSeq(2, listeners)
    /\ InSeq(1, listeners)
    /\ log # <<>>
    /\ \E i \in 1..Len(log) : log[i].l = 1
    /\ \A i \in 1..Len(log) : log[i].l # 2

----------------------------------------------------------------------------
(* C33: registration is last-write-wins.  After when(n, d1) and then       *)
(* when(n, d2) only d2 governs n: effects, meta, `to` and `from`, and a    *)
(* field d1 had and d2 omits applies no longer; after can(n, g1) and then  *)
(* can(n, g2) only g2 gates the entry into n.  A registration changes      *)
(* neither the current state nor the history and emits no event.           *)

(* The descriptor and the guard the last registration for n in p gave. *)
LastWhen(p, n) ==
    LET I == {i \in 1..Len(p) : p[i].op = "when" /\ p[i].name = n}
    IN  IF I = {} THEN NoDesc
        ELSE p[CHOOSE i \in I : \A j \in I : j <= i].desc

LastCan(p, n) ==
    LET I == {i \in 1..Len(p) : p[i].op = "can" /\ p[i].name = n}
    IN  IF I = {} THEN "none"
        ELSE p[CHOOSE i \in I : \A j \in I : j <= i].guard

C33_LastGoverns ==
    \E p \in RegisterPlans : \E k \in 0..Len(p) :
        /\ plan = SubSeq(p, k + 1, Len(p))
        /\ \A n \in Names :
               /\ handlers[n] = LastWhen(SubSeq(p, 1, k), n)
               /\ guards[n] = LastCan(SubSeq(p, 1, k), n)
               /\ Meta(n) = IF "meta" \in DOMAIN LastWhen(SubSeq(p, 1, k), n)
                            THEN LastWhen(SubSeq(p, 1, k), n).meta
                            ELSE "undefined"

C33_RegisterStep ==
    (plan # <<>> /\ plan' = Tail(plan))
    => /\ current' = current
       /\ stateHistory' = stateHistory
       /\ log' = <<>>
       /\ fx' = <<>>

(* The effects an operation runs and the reason it is rejected for are     *)
(* those of the registrations in force when it is made.                    *)
C33_InForce ==
    /\ \A i \in 1..Len(fx') :
           /\ fx'[i].kind = "exit" => handlers[fx'[i].state].exit
           /\ fx'[i].kind = "enter" => handlers[fx'[i].state].enter
    /\ \A c \in {done'[i] : i \in 1..Len(done')} :
           (c.op = "to" /\ c.blocked # "none" /\ plan' = plan)
           => \/ c.blocked = "to" /\ ToListExcludes(current.value, c.target)
              \/ c.blocked = "from" /\ FromListExcludes(current.value, c.target)
              \/ c.blocked = "guard" /\ GuardRejects(current, c.target)

C33_LastWriteWins ==
    [](C33_LastGoverns) /\ [][C33_RegisterStep /\ C33_InForce]_vars

(* Both names of the first chain were registered twice, and a `to` from A  *)
(* to B, which the first descriptor of B and the first guard of B reject   *)
(* and which runs the exit effect of the first descriptor of A, committed  *)
(* without an effect; the metadata of A, which only its first descriptor   *)
(* had, is undefined.                                                      *)
C33_Witness ==
    /\ plan = <<>>
    /\ guards["B"] = "notC"
    /\ Meta("A") = "undefined"
    /\ Meta("B") = "second"
    /\ current.value = "B"
    /\ \E c \in Ended :
           /\ c.op = "to" /\ c.pre.value = "A" /\ c.target = "B"
           /\ c.pc = "done"
           /\ HasStep(c, "commit")
           /\ ~HasStep(c, "exit") /\ ~HasStep(c, "enter")

----------------------------------------------------------------------------
(* C34: a state name with no descriptor and no guard is a legal bare       *)
(* state.  `to(t)` for such a t commits whenever the current descriptor    *)
(* has no `to` list or lists t, and runs no enter effect; `restore` to an  *)
(* unregistered name is accepted; from a bare current state no `to`-list   *)
(* check applies to the next `to`.                                         *)
Bare(n) == ~handlers[n].has /\ guards[n] = "none"

C34_ToBare ==
    \A c \in ToRecords :
        (plan = <<>> /\ Bare(c.target))
        => /\ c.blocked # "none"
              <=> (c.blocked = "to" /\ ToListExcludes(c.pre.value, c.target))
           /\ ~HasStep(c, "enter")
           /\ (c.pc = "done" /\ ~ToListExcludes(c.pre.value, c.target))
              => /\ HasStep(c, "commit")
                 /\ c.steps[Len(c.steps)].k = "notify"
                 /\ c.steps[Len(c.steps)].st.value = c.target

C34_FromBare ==
    \A c \in ToRecords :
        (plan = <<>> /\ Bare(c.pre.value)) => c.blocked # "to"

C34_RestoreStep ==
    (snap.has /\ ~handlers[snap.state].has /\ Restore(snap))
    => /\ current'.value = snap.state
       /\ \A n \in 1..Len(listeners) : \E i \in 1..Len(log') :
              log'[i].l = listeners[n] /\ log'[i].ev.state.value = snap.state

C34_BareStateLegal ==
    [](C34_ToBare /\ C34_FromBare) /\ [][C34_RestoreStep]_vars

(* From A, whose descriptor lists the bare B, a `to` to B committed and    *)
(* returned.                                                               *)
C34_Witness ==
    /\ plan = <<>>
    /\ handlers["A"].hasTo /\ InSeq("B", handlers["A"].to)
    /\ Bare("B")
    /\ current.value = "B"
    /\ \E c \in Returned :
           /\ c.op = "to" /\ c.pre.value = "A" /\ c.target = "B"
           /\ HasStep(c, "commit")

----------------------------------------------------------------------------
(* C35: `clearHistory()` empties the history and does nothing else: state  *)
(* name, context, registrations and listeners are unchanged and no event   *)
(* is emitted; a `back()` issued right after it is a no-op.                *)
C35_ClearStep ==
    ClearHistory
    => /\ stateHistory' = <<>>
       /\ current' = current
       /\ <<handlers, handlerOrder, guards>>' = <<handlers, handlerOrder, guards>>
       /\ listeners' = listeners
       /\ calls' = calls
       /\ snap' = snap
       /\ log' = <<>> /\ fx' = <<>>
       /\ LET r == BackBegin(M, "direct")'
          IN  /\ r.current = current
              /\ r.stateHistory = <<>>
              /\ r.calls = calls
              /\ r.log = <<>> /\ r.fx = <<>>
              /\ Len(r.done) = 1 /\ r.done[1].steps = <<>>

C35_ClearHistoryOnly == [][C35_ClearStep]_vars

(* The machine left A by a commit, which recorded A in the history; the    *)
(* history is empty, no call is in flight and the last action emitted no   *)
(* event and returned no call.                                             *)
C35_Witness ==
    /\ plan = <<>>
    /\ current.value = "B"
    /\ current.context.count > 0
    /\ stateHistory = <<>>
    /\ calls = <<>> /\ runSeq = <<>>
    /\ done = <<>> /\ log = <<>> /\ fx = <<>>
    /\ ops = 3

----------------------------------------------------------------------------
(* C36: in the data-fetching machine of the examples, a `to("idle")`       *)
(* issued while the current state is success is blocked and leaves the     *)
(* state at success.                                                       *)
C36_SuccessToIdleBlocked ==
    \A c \in ToRecords :
        (plan = <<>> /\ c.pre.value = "success" /\ c.target = "idle")
        => /\ ~HasStep(c, "commit")
           /\ c \in Ended => (c.blocked # "none" /\ current.value = "success")

----------------------------------------------------------------------------
(* C37: transitions() and `to` agree in every reachable state.  `to(n)`    *)
(* issued immediately after transitions() commits for every n that         *)
(* transitions() returned, and every name n other than the current state   *)
(* that has a registered descriptor and for which `to(n)` would commit is  *)
(* returned by transitions().                                              *)

(* The record of a `to(n)` the caller would issue in this state, as far as *)
(* the call runs before it first yields.                                   *)
Issued(n) ==
    LET r == ToBegin(M, n, NoUpdate, "direct")
    IN  IF r.done # <<>> THEN r.done[Len(r.done)]
        ELSE r.calls[Len(r.calls)]

(* The call passed the three checks: it has committed, or it awaits the    *)
(* exit effect that precedes its commit.                                   *)
WouldCommit(n) ==
    LET c == Issued(n)
    IN  /\ c.blocked = "none"
        /\ HasStep(c, "push")
        /\ HasStep(c, "commit") \/ c.pc = "exit"

C37_TransitionsAgreeWithTo ==
    LET returned == Transitions(current)
    IN  \A n \in Names :
            LET commits == WouldCommit(n)
            IN  /\ InSeq(n, returned) => commits
                /\ (n # current.value /\ handlers[n].has /\ commits)
                   => InSeq(n, returned)

(* After an operation, in a state whose descriptor has a `to` list,        *)
(* transitions() returns a name other than the current one and leaves out  *)
(* a registered one.                                                       *)
C37_Witness ==
    /\ plan = <<>>
    /\ ops > 0
    /\ handlers[current.value].hasTo
    /\ \E n \in Names \ {current.value} :
           InSeq(n, Transitions(current)) /\ WouldCommit(n)
    /\ \E n \in Names \ {current.value} :
           handlers[n].has /\ ~InSeq(n, Transitions(current))
                           /\ ~WouldCommit(n)

----------------------------------------------------------------------------
(* C38: round trip.  Starting from any state with history length h, k      *)
(* committed `to` calls with h + k <= 10 followed by k `back()` calls      *)
(* return the state name, the context and the history to exactly what they *)
(* were before the first `to`.  The calls are awaited one after the other  *)
(* by a caller with nothing else in flight, and none of their effects      *)
(* raises.                                                                 *)
MaxTrip == 2

TripSeqs ==
    UNION {[1..k -> [to : HistTargets, update : {Fn("inc")}]] :
           k \in 1..MaxTrip}

RECURSIVE BackTimes(_, _)
BackTimes(m, k) ==
    IF k = 0 THEN m
    ELSE BackTimes(Settle(BackBegin(m, "direct")), k - 1)

Forth(seq) ==
    AwaitEach([M EXCEPT !.fx = <<>>, !.log = <<>>, !.done = <<>>], seq)

AllCommitted(m, k) ==
    /\ Len(m.done) = k
    /\ \A i \in 1..k : m.done[i].op = "to" /\ m.done[i].pc = "done"
                       /\ HasStep(m.done[i], "commit")

RoundTrip(seq) ==
    LET there == Forth(seq)
        again == BackTimes(there, Len(seq))
    IN  /\ again.current = current
        /\ again.stateHistory = stateHistory
        /\ again.calls = <<>>

C38_RoundTrip ==
    (calls = <<>> /\ runSeq = <<>>)
    => \A seq \in TripSeqs :
           (/\ AllCommitted(Forth(seq), Len(seq))
            /\ Len(stateHistory) + Len(seq) <= maxHistory)
           => RoundTrip(seq)

(* A `back` has returned and left nine entries in the history; one `to`    *)
(* fills the history and the `back` after it restores the state, while two *)
(* `to` calls evict the oldest entry, which two `back` calls do not bring  *)
(* back.                                                                   *)
C38_Witness ==
    /\ calls = <<>> /\ runSeq = <<>>
    /\ Len(stateHistory) = maxHistory - 1
    /\ \E c \in Returned : c.op = "back" /\ HasStep(c, "commit")
    /\ \E seq \in TripSeqs :
           /\ Len(seq) = 1
           /\ AllCommitted(Forth(seq), 1)
           /\ Forth(seq).current # current
           /\ RoundTrip(seq)
    /\ \E seq \in TripSeqs :
           /\ Len(seq) = 2
           /\ AllCommitted(Forth(seq), 2)
           /\ ~RoundTrip(seq)

----------------------------------------------------------------------------
(* C39: effects are paired with commits over any sequence of to, back, run *)
(* and steps calls.  For each commit that moves the current state from f   *)
(* to t, the exit effect of f runs exactly once before it and the enter    *)
(* effect of t exactly once after it, and no exit or enter effect runs for *)
(* a blocked attempt or without a commit of its own; no exit effect runs   *)
(* twice for one departure.  Stated of the invocations that returned, so   *)
(* that no effect of theirs raised.                                        *)
StepsOf(c, k) == {i \in 1..Len(c.steps) : c.steps[i].k = k}

C39_EffectsPaired ==
    \A c \in Returned :
        c.op \in {"to", "back"}
        => /\ Cardinality(StepsOf(c, "commit")) <= 1
           /\ c.blocked # "none"
              => StepsOf(c, "exit") \cup StepsOf(c, "enter") = {}
           /\ \A j \in StepsOf(c, "commit") :
                  /\ handlers[c.steps[j].from].exit
                     => Cardinality({i \in StepsOf(c, "exit") : i < j}) = 1
                  /\ handlers[c.steps[j].st.value].enter
                     => Cardinality({i \in StepsOf(c, "enter") : i > j}) = 1
           /\ \A i \in StepsOf(c, "exit") :
                  \E j \in StepsOf(c, "commit") :
                      /\ i < j
                      /\ c.steps[i].from = c.steps[j].from
                      /\ handlers[c.steps[j].from].exit
           /\ \A i \in StepsOf(c, "enter") :
                  \E j \in StepsOf(c, "commit") :
                      /\ j < i
                      /\ c.steps[i].st.value = c.steps[j].st.value
                      /\ handlers[c.steps[j].st.value].enter

----------------------------------------------------------------------------
(* C40: the listeners that receive an event are fixed when its dispatch    *)
(* starts.  A listener subscribed from inside the callback of another      *)
(* listener during a dispatch is not invoked for the event being           *)
(* dispatched and receives only later events: every listener an action     *)
(* invokes was subscribed when the action began.                           *)
C40_DispatchStep ==
    \A i \in 1..Len(log') : InSeq(log'[i].l, listeners)

C40_ListenersFixedAtDispatch == [][C40_DispatchStep]_vars

====
